---- MODULE Spec2Model ----
(***************************************************************************)
(* A note-taking client (React providers) over a hosted real-time store.   *)
(* The store holds entities (notes, notebooks, tags), the creator link of  *)
(* each entity and the notebook/tag link edges.  Every client (browser     *)
(* tab) has an AuthProvider (identity, onboarding effect) and a            *)
(* NoteProvider (live-query snapshot, write handlers).                     *)
(***************************************************************************)
EXTENDS Integers, Sequences, FiniteSets, TLC

(***************************************************************************)
(* Bounds of the model.                                                    *)
(***************************************************************************)
MaxCalls == 3    \* accepted calls when every write handler may run
MaxClock == 1    \* largest reading of new Date()
MaxRuns == 2     \* runs of the identity-watching effect
MaxLinkCalls == 2 \* accepted calls of the notebook-linking handlers
MaxTagCalls == 4  \* accepted calls of the tag handlers
MaxEditCalls == 4  \* accepted calls of the editing scenario
MaxEditorCalls == 2  \* accepted calls of the editor scenario
MaxHomeCalls == 4  \* accepted calls of the home-page scenario
MaxPending == 2  \* handler calls of one tab awaiting their promise
MaxAuthCalls == 3  \* handler calls of the sign-in scenario
MaxFormCalls == 3  \* submits of the create-form scenario

(***************************************************************************)
(* Universe.                                                               *)
(***************************************************************************)
Users == {"alice", "bob"}
NoUser == "none"
Clients == {"tab1", "tab2"}
NoNotebook == 0
Titles == {"A"}
Contents == {"x"}
TagNames == <<"home", "work">>
NotebookNames == {"Work"}

\* users a client signs in as (tab1 and tab2 share alice; tab2 is also bob's)
SignIns(c) == IF c = "tab1" THEN {"alice"} ELSE {"alice", "bob"}

\* id() returns identifiers that never repeat: the k-th identifier used for a
\* record of namespace ns
IdBase(ns) == CASE ns = "notes" -> 0 [] ns = "notebooks" -> 100
                [] ns = "tags" -> 200
NewId(ns, k) == IdBase(ns) + k

VARIABLES
  db,               \* the remote store
  nextId,           \* per namespace, the index of the next unused identifier
  clock,            \* current reading of new Date()
  isLoading,        \* db.useAuth().isLoading, per client
  user,             \* db.useAuth().user, per client
  previousUserRef,  \* AuthProvider.previousUserRef.current, per client
  runs,             \* runs of checkUserAndCreateNotes, in start order
  snap,             \* latest live-query result of NoteProvider, per client
  moveRun,          \* moveNoteToNotebook call suspended at an await, per client
  calls,            \* number of accepted write-handler calls so far
  currentNote,      \* NoteProvider's currentNote, per client
  delRun,           \* deleteNote call suspended at its await, per client
  editor,           \* NoteEditor's title and content state, per client
  timer,            \* NoteEditor's pending autosave timeout, per client
  sentEmail,        \* AuthProvider's sentEmail state, per client
  pathname,         \* router.pathname, per client
  authForm,         \* AuthForm's sentEmail and isLoading state, per client
  pend,             \* handler calls of the forms awaiting their promise
  lastOp            \* the handler step that produced the state (history)

vars == <<db, nextId, clock, isLoading, user, previousUserRef, runs, snap,
          moveRun, calls, currentNote, delRun, editor, timer, sentEmail,
          pathname, authForm, pend, lastOp>>

authVars == <<isLoading, user, previousUserRef>>

editorVars == <<editor, timer>>

pageVars == <<sentEmail, pathname>>

formVars == <<authForm, pend>>

uiVars == <<currentNote, delRun, editorVars, pageVars, formVars>>

(***************************************************************************)
(* Transaction steps: db.tx.<ns>[id].update / link / unlink / delete.      *)
(***************************************************************************)
NoFields == [e \in {} |-> 0]

TxUpdate(ns, id, fields) ==
  [op |-> "update", ns |-> ns, id |-> id, fields |-> fields,
   label |-> "", targets |-> {}]

TxLink(ns, id, label, targets) ==
  [op |-> "link", ns |-> ns, id |-> id, fields |-> NoFields,
   label |-> label, targets |-> targets]

TxUnlink(ns, id, label, targets) ==
  [op |-> "unlink", ns |-> ns, id |-> id, fields |-> NoFields,
   label |-> label, targets |-> targets]

TxDelete(ns, id) ==
  [op |-> "delete", ns |-> ns, id |-> id, fields |-> NoFields,
   label |-> "", targets |-> {}]

EmptyDb == [ent |-> [e \in {} |-> 0], creator |-> [e \in {} |-> 0],
            nbNotes |-> {}, noteTags |-> {}]

Restrict(f, S) == [x \in S |-> f[x]]

\* update(): creates the entity when absent, otherwise patches the fields
ApplyUpdate(S, o) ==
  LET old == IF o.id \in DOMAIN S.ent THEN S.ent[o.id].attrs ELSE NoFields
  IN [S EXCEPT !.ent = (o.id :> [ns |-> o.ns, attrs |-> o.fields @@ old]) @@ @]

ApplyLink_KeepsOldNotebook(S, o) ==
  CASE o.label = "creator" ->
         [S EXCEPT !.creator = (o.id :> (CHOOSE u \in o.targets : TRUE)) @@ @]
    [] o.label = "notes" ->
         [S EXCEPT !.nbNotes = @ \cup {<<o.id, n>> : n \in o.targets}]
    [] o.label = "notebook" ->
         [S EXCEPT !.nbNotes = @ \cup {<<b, o.id>> : b \in o.targets}]
    [] o.label = "tags" ->
         [S EXCEPT !.noteTags = @ \cup {<<o.id, t>> : t \in o.targets}]

\* link(): 'creator' and a note's 'notebook' are has-one, 'tags' is has-many
ApplyLink(S, o) ==
  CASE o.label = "creator" ->
         [S EXCEPT !.creator = (o.id :> (CHOOSE u \in o.targets : TRUE)) @@ @]
    [] o.label = "notes" ->
         [S EXCEPT !.nbNotes = {e \in @ : e[2] \notin o.targets}
                                 \cup {<<o.id, n>> : n \in o.targets}]
    [] o.label = "notebook" ->
         [S EXCEPT !.nbNotes = {e \in @ : e[2] # o.id}
                                 \cup {<<b, o.id>> : b \in o.targets}]
    [] o.label = "tags" ->
         [S EXCEPT !.noteTags = @ \cup {<<o.id, t>> : t \in o.targets}]

ApplyUnlink(S, o) ==
  CASE o.label = "notes" ->
         [S EXCEPT !.nbNotes = @ \ {<<o.id, n>> : n \in o.targets}]
    [] o.label = "tags" ->
         [S EXCEPT !.noteTags = @ \ {<<o.id, t>> : t \in o.targets}]

\* delete(): the entity goes away completely, with the links it is part of
ApplyDelete_KeepsLinks(S, o) ==
  [ent |-> Restrict(S.ent, DOMAIN S.ent \ {o.id}),
   creator |-> Restrict(S.creator, DOMAIN S.creator \ {o.id}),
   nbNotes |-> S.nbNotes,
   noteTags |-> S.noteTags]

ApplyDelete(S, o) ==
  [ent |-> Restrict(S.ent, DOMAIN S.ent \ {o.id}),
   creator |-> Restrict(S.creator, DOMAIN S.creator \ {o.id}),
   nbNotes |-> {e \in S.nbNotes : e[1] # o.id /\ e[2] # o.id},
   noteTags |-> {e \in S.noteTags : e[1] # o.id /\ e[2] # o.id}]

ApplyOp(S, o) ==
  CASE o.op = "update" -> ApplyUpdate(S, o)
    [] o.op = "link" -> ApplyLink(S, o)
    [] o.op = "unlink" -> ApplyUnlink(S, o)
    [] o.op = "delete" -> ApplyDelete(S, o)

RECURSIVE ApplyTx(_, _)
ApplyTx(S, tx) ==
  IF tx = <<>> THEN S ELSE ApplyTx(ApplyOp(S, Head(tx)), Tail(tx))

(***************************************************************************)
(* Permission rules and schema constraints checked by the store.           *)
(***************************************************************************)
CreatorOf(S, id) == IF id \in DOMAIN S.creator THEN S.creator[id] ELSE NoUser

\* create: auth.id != null; update/delete: auth.id == data.ref('creator.id')
Permitted(S, auth, o) ==
  /\ auth # NoUser
  /\ o.id \in DOMAIN S.ent => CreatorOf(S, o.id) = auth

\* tags.name is unique across the whole dataset
UniqueOk_NotEnforced(S, o) == TRUE

\* tags.name is declared unique in the schema
UniqueOk(S, o) ==
  (o.op = "update" /\ o.ns = "tags" /\ "name" \in DOMAIN o.fields) =>
    \A t \in DOMAIN S.ent :
      (S.ent[t].ns = "tags" /\ t # o.id /\ "name" \in DOMAIN S.ent[t].attrs)
        => S.ent[t].attrs.name # o.fields.name

TxAccepted(S, auth, tx) ==
  \A i \in DOMAIN tx : Permitted(S, auth, tx[i]) /\ UniqueOk(S, tx[i])

\* db.transact(tx): all steps are applied or none; net = FALSE is a call the
\* network or the server fails
TransactOk(S, auth, tx, net) == net /\ TxAccepted(S, auth, tx)

Transact_FirstStepOnFailure(S, auth, tx, net) ==
  IF TransactOk(S, auth, tx, net) THEN ApplyTx(S, tx)
  ELSE ApplyTx(S, SubSeq(tx, 1, 1))

Transact_AllButLastOnFailure(S, auth, tx, net) ==
  IF TransactOk(S, auth, tx, net) THEN ApplyTx(S, tx)
  ELSE ApplyTx(S, SubSeq(tx, 1, Len(tx) - 1))

Transact(S, auth, tx, net) ==
  IF TransactOk(S, auth, tx, net) THEN ApplyTx(S, tx) ELSE S

(***************************************************************************)
(* Queries.                                                                *)
(***************************************************************************)
IdsOf(S, ns) == {e \in DOMAIN S.ent : S.ent[e].ns = ns}

Visible_Everyone(S, u, ns) == IdsOf(S, ns)

\* where: { 'creator.id': u } under the view rule auth.id == creator.id
Visible(S, u, ns) == {e \in IdsOf(S, ns) : CreatorOf(S, e) = u}

Attr(S, e, f) == IF f \in DOMAIN S.ent[e].attrs THEN S.ent[e].attrs[f] ELSE 0

NameRank(name) ==
  IF \E i \in DOMAIN TagNames : TagNames[i] = name
  THEN CHOOSE i \in DOMAIN TagNames : TagNames[i] = name ELSE 0

\* ids in descending key order (ties: the newer identifier first)
RECURSIVE OrderDesc(_, _)
OrderDesc(ids, key) ==
  IF ids = {} THEN <<>>
  ELSE LET m == CHOOSE x \in ids :
                  \A y \in ids : key[x] > key[y] \/ (key[x] = key[y] /\ x >= y)
       IN <<m>> \o OrderDesc(ids \ {m}, key)

RECURSIVE OrderAsc(_, _)
OrderAsc(ids, key) ==
  IF ids = {} THEN <<>>
  ELSE LET m == CHOOSE x \in ids :
                  \A y \in ids : key[x] < key[y] \/ (key[x] = key[y] /\ x <= y)
       IN <<m>> \o OrderAsc(ids \ {m}, key)

\* notes: { tags: {}, notebook: {} } row of one note
NoteRow(S, u, n) ==
  LET nbs == {b \in Visible(S, u, "notebooks") : <<b, n>> \in S.nbNotes}
  IN [id |-> n, attrs |-> S.ent[n].attrs,
      notebook |-> IF nbs = {} THEN NoNotebook ELSE CHOOSE b \in nbs : TRUE,
      tags |-> {t \in Visible(S, u, "tags") : <<n, t>> \in S.noteTags}]

EntityRow(S, e) == [id |-> e, attrs |-> S.ent[e].attrs]

\* the result of NoteProvider's useQuery for user u
QueryView(S, u) ==
  LET ns == Visible(S, u, "notes")
      bs == Visible(S, u, "notebooks")
      ts == Visible(S, u, "tags")
      nOrd == OrderDesc(ns, [n \in ns |-> Attr(S, n, "updatedAt")])
      bOrd == OrderDesc(bs, [b \in bs |-> Attr(S, b, "createdAt")])
      tOrd == OrderAsc(ts, [t \in ts |-> NameRank(Attr(S, t, "name"))])
  IN [notes |-> [i \in DOMAIN nOrd |-> NoteRow(S, u, nOrd[i])],
      notebooks |-> [i \in DOMAIN bOrd |-> EntityRow(S, bOrd[i])],
      tags |-> [i \in DOMAIN tOrd |-> EntityRow(S, tOrd[i])]]

EmptyView == [notes |-> <<>>, notebooks |-> <<>>, tags |-> <<>>]

\* db.queryOnce({ notes: { $: { where: { 'creator.id': u }, limit: 1 } } })
QueryOnceNotes(S, u) == Visible(S, u, "notes")

(***************************************************************************)
(* Initial state: every provider has just been mounted.                    *)
(***************************************************************************)
NoMove == [pc |-> "idle"]

\* useState<NoteWithRelations | null>(null)
Null == [id |-> NoNotebook]

NoDelete == [pc |-> "idle"]

\* useState<string | null>(null)
NoEmail == "null"

Emails == {"alice@x.io", "bob@x.io"}

\* the routes of pages/: index.tsx, login.tsx and 404.tsx
Paths == {"/", "/login", "/404"}

\* AuthForm as mounted: useState(false) for sentEmail and for isLoading
NewForm == [sentEmail |-> FALSE, isLoading |-> FALSE]

\* NoteEditor's text before a note is shown
BlankText == [title |-> "", content |-> ""]

NoTimer == [pc |-> "none"]

UiInit ==
  /\ currentNote = [c \in Clients |-> Null]
  /\ delRun = [c \in Clients |-> NoDelete]
  /\ editor = [c \in Clients |-> BlankText]
  /\ timer = [c \in Clients |-> NoTimer]
  /\ sentEmail = [c \in Clients |-> NoEmail]
  /\ authForm = [c \in Clients |-> NewForm]
  /\ pend = [c \in Clients |-> <<>>]

\* the providers of _app.tsx mounted, each tab on the page it was opened at
Mounted(paths) ==
  /\ db = EmptyDb
  /\ nextId = [ns \in {"notes", "notebooks", "tags"} |-> 1]
  /\ clock = 0
  /\ isLoading = [c \in Clients |-> TRUE]
  /\ user = [c \in Clients |-> NoUser]
  /\ previousUserRef = [c \in Clients |-> NoUser]
  /\ runs = <<>>
  /\ snap = [c \in Clients |-> EmptyView]
  /\ moveRun = [c \in Clients |-> NoMove]
  /\ calls = 0
  /\ UiInit
  /\ pathname = paths
  /\ lastOp = [name |-> "init", client |-> "", pre |-> EmptyDb]

AtHome == [c \in Clients |-> "/"]

Init == Mounted(AtHome)

\* time passes
Tick ==
  /\ clock < MaxClock
  /\ clock' = clock + 1
  /\ UNCHANGED <<uiVars, db, nextId, authVars, runs, snap, moveRun, calls, lastOp>>

(***************************************************************************)
(* lib/onboarding.ts                                                       *)
(***************************************************************************)
WelcomeNotes ==
  << [title |-> "Welcome to Evernote Clone!", content |-> "welcome"],
     [title |-> "Creating and Editing Notes", content |-> "editing"],
     [title |-> "Using Notebooks", content |-> "notebooks"],
     [title |-> "Using Tags", content |-> "tags"],
     [title |-> "Tips and Tricks", content |-> "tips"] >>

\* the notebook write of seedUserWithOnboardingNotes
SeedNotebookTxOps(u, notebookId, now) ==
  << TxUpdate("notebooks", notebookId,
              [name |-> "Getting Started",
               description |-> "Introduction to the Evernote Clone",
               createdAt |-> now]),
     TxLink("notebooks", notebookId, "creator", {u}) >>

\* one element of welcomeNotes.map((note, index) => ...)
SeedNoteOps_AllFavorite(u, notebookId, now, noteId, index) ==
  << TxUpdate("notes", noteId,
              [title |-> WelcomeNotes[index].title,
               content |-> WelcomeNotes[index].content,
               createdAt |-> now, updatedAt |-> now, isFavorite |-> TRUE]),
     TxLink("notes", noteId, "creator", {u}),
     TxLink("notes", noteId, "notebook", {notebookId}) >>

SeedNoteOps(u, notebookId, now, noteId, index) ==
  << TxUpdate("notes", noteId,
              [title |-> WelcomeNotes[index].title,
               content |-> WelcomeNotes[index].content,
               createdAt |-> now, updatedAt |-> now,
               isFavorite |-> (index = 1)]),
     TxLink("notes", noteId, "creator", {u}),
     TxLink("notes", noteId, "notebook", {notebookId}) >>

RECURSIVE SeedNotesTxOps(_, _, _, _, _)
SeedNotesTxOps(u, notebookId, now, noteIds, index) ==
  IF index > Len(noteIds) THEN <<>>
  ELSE SeedNoteOps(u, notebookId, now, noteIds[index], index)
         \o SeedNotesTxOps(u, notebookId, now, noteIds, index + 1)

(***************************************************************************)
(* AuthProvider: identity subscription and the onboarding effect.          *)
(***************************************************************************)
NewRun(c, u) ==
  [client |-> c, user |-> u, pc |-> "query", hadNotes |-> FALSE,
   seeded |-> FALSE, notebookId |-> 0, now |-> 0, noteIds |-> <<>>]

\* the guard of checkUserAndCreateNotes, evaluated when the effect runs
EffectStartsRun(c, u) == u # NoUser /\ previousUserRef[c] # u

AuthRedirect_Never(path, loading, u, sent) == path

AuthRedirect_IgnoresPending(path, loading, u, sent) ==
  IF ~loading /\ u = NoUser /\ path # "/login" THEN "/login" ELSE path

\* AuthProvider: if (!isLoading && !user && !sentEmail &&
\* router.pathname !== '/login') router.push('/login')
AuthRedirect(path, loading, u, sent) ==
  IF ~loading /\ u = NoUser /\ sent = NoEmail /\ path # "/login"
  THEN "/login" ELSE path

\* Home: if (!isLoading && !isAuthenticated) router.push('/login')
HomeRedirect(path, loading, u) ==
  IF ~loading /\ u = NoUser THEN "/login" ELSE path

LoginRedirect_WhenLoaded(path, loading, u) ==
  IF ~loading THEN "/" ELSE path

\* Login: if (!isLoading && isAuthenticated) router.push('/')
LoginRedirect(path, loading, u) ==
  IF ~loading /\ u # NoUser THEN "/" ELSE path

\* the effects of one commit: the page's, then the provider's
RedirectStep(path, loading, u, sent) ==
  LET page == CASE path = "/" -> HomeRedirect(path, loading, u)
                [] path = "/login" -> LoginRedirect(path, loading, u)
                [] OTHER -> path
  IN IF page # path THEN page ELSE AuthRedirect(path, loading, u, sent)

\* the route once the redirect effects have nothing more to push
Redirects(path, loading, u, sent) ==
  RedirectStep(RedirectStep(path, loading, u, sent), loading, u, sent)

\* what the page at path renders; Home: if (isLoading || !isAuthenticated)
\* return null
Screen(path, loading, u) ==
  CASE path = "/" -> IF loading \/ u = NoUser THEN "blank" ELSE "notes"
    [] path = "/login" -> "login"
    [] OTHER -> "404"

\* a handler call that awaits its promise: the form's page, whether that
\* form is still mounted, and what the call was given
Call(kind, page, id, arg, nb, now) ==
  [kind |-> kind, page |-> page, live |-> TRUE, id |-> id, arg |-> arg,
   nb |-> nb, now |-> now]

RemoveAt(cs, i) == SubSeq(cs, 1, i - 1) \o SubSeq(cs, i + 1, Len(cs))

\* the calls of the forms of a page that is unmounted: what they set on
\* their form has no effect any more
Orphaned(cs, page) ==
  [i \in DOMAIN cs |->
     IF cs[i].page = page THEN [cs[i] EXCEPT !.live = FALSE]
     ELSE cs[i]]

\* the pending cs and AuthForm's state after the route went from one page
\* to another: the page left is unmounted, the login page mounts a new form
PendOnRoute(cs, from, to) ==
  IF from = to THEN cs ELSE Orphaned(cs, from)

AuthFormOnRoute(form, from, to) ==
  IF from = "/login" /\ to = "/login" THEN form ELSE NewForm

\* db.useAuth() delivers a (new) user object or null; the effect on
\* [isLoading, user] runs and, past its guard, issues the one-shot query
AuthEmit(c, u) ==
  LET to == Redirects(pathname[c], FALSE, u, sentEmail[c])
  IN /\ isLoading[c] \/ u # NoUser \/ user[c] # NoUser
     /\ EffectStartsRun(c, u) => Len(runs) < MaxRuns
     /\ isLoading' = [isLoading EXCEPT ![c] = FALSE]
     /\ user' = [user EXCEPT ![c] = u]
     /\ snap' = [snap EXCEPT ![c] = IF u = user[c] THEN @ ELSE EmptyView]
     /\ runs' = IF EffectStartsRun(c, u) THEN Append(runs, NewRun(c, u))
                ELSE runs
     /\ pathname' = [pathname EXCEPT ![c] = to]
     /\ authForm' = [authForm EXCEPT ![c] =
          AuthFormOnRoute(@, pathname[c], to)]
     /\ pend' = [pend EXCEPT ![c] = PendOnRoute(@, pathname[c], to)]
     /\ lastOp' = [name |-> "AuthEmit", client |-> c, pre |-> db, user |-> u,
                   path |-> pathname[c]]
     /\ UNCHANGED <<currentNote, delRun, editorVars, sentEmail, db, nextId,
                    clock, previousUserRef, moveRun, calls>>

\* AuthForm.handleEmailSubmit up to its await: setIsLoading(true) and the
\* call of signIn(email); the submit button is disabled while isLoading
HandleEmailSubmit(c, email) ==
  /\ pathname[c] = "/login"
  /\ ~authForm[c].sentEmail
  /\ ~authForm[c].isLoading
  /\ authForm' = [authForm EXCEPT ![c].isLoading = TRUE]
  /\ pend' = [pend EXCEPT ![c] =
       Append(@, Call("signIn", "/login", 0, email, NoNotebook, clock))]
  /\ calls' = calls + 1
  /\ UNCHANGED <<db, nextId, clock, authVars, runs, snap, moveRun,
                 currentNote, delRun, editorVars, pageVars, lastOp>>

SignInSentEmail_BeforeSend(sent, email, resolved) == email

\* await db.auth.sendMagicCode({ email }); setSentEmail(email)
SignInSentEmail(sent, email, resolved) == IF resolved THEN email ELSE sent

\* signIn once sendMagicCode settled: setSentEmail(email) if it resolved; a
\* rejection is logged and rethrown.  Then the rest of handleEmailSubmit:
\* setSentEmail(true) or setError, and setIsLoading(false)
SignIn(c, i, net) ==
  LET call == pend[c][i]
  IN /\ call.kind = "signIn"
     /\ sentEmail' = [sentEmail EXCEPT ![c] = SignInSentEmail(@, call.arg, net)]
     /\ authForm' = [authForm EXCEPT ![c] =
          IF call.live
          THEN [sentEmail |-> net \/ @.sentEmail, isLoading |-> FALSE]
          ELSE @]
     /\ pend' = [pend EXCEPT ![c] = RemoveAt(@, i)]
     /\ lastOp' = [name |-> "signIn", client |-> c, pre |-> db, ok |-> net,
                   email |-> call.arg, threw |-> ~net,
                   before |-> sentEmail[c]]
     /\ UNCHANGED <<db, nextId, clock, authVars, runs, snap, moveRun, calls,
                    currentNote, delRun, editorVars, pathname>>

\* AuthForm.handleCodeSubmit up to its await: setIsLoading(true) and the
\* call of verifyCode(email, code), from the code form
HandleCodeSubmit(c, email) ==
  /\ pathname[c] = "/login"
  /\ authForm[c].sentEmail
  /\ ~authForm[c].isLoading
  /\ authForm' = [authForm EXCEPT ![c].isLoading = TRUE]
  /\ pend' = [pend EXCEPT ![c] =
       Append(@, Call("verifyCode", "/login", 0, email, NoNotebook, clock))]
  /\ calls' = calls + 1
  /\ UNCHANGED <<db, nextId, clock, authVars, runs, snap, moveRun,
                 currentNote, delRun, editorVars, pageVars, lastOp>>

VerifyCodeSentEmail_ClearsAlways(sent, resolved) == NoEmail

\* verifyCode: setSentEmail(null) after signInWithMagicCode resolved
VerifyCodeSentEmail(sent, resolved) == IF resolved THEN NoEmail ELSE sent

\* verifyCode once signInWithMagicCode settled, then the rest of
\* handleCodeSubmit: onSuccess() is Login's router.push('/'); a rejection is
\* logged and rethrown by verifyCode and shown by the form.  The user object
\* arrives through db.useAuth().
VerifyCode(c, i, resolved) ==
  LET call == pend[c][i]
      sent == VerifyCodeSentEmail(sentEmail[c], resolved)
      rest == RemoveAt(pend[c], i)
  IN /\ call.kind = "verifyCode"
     /\ sentEmail' = [sentEmail EXCEPT ![c] = sent]
     /\ IF resolved
        THEN /\ pathname' = [pathname EXCEPT ![c] =
                  Redirects("/", isLoading[c], user[c], sent)]
             /\ authForm' = [authForm EXCEPT ![c] =
                  IF pathname[c] = "/" THEN @ ELSE NewForm]
             /\ pend' = [pend EXCEPT ![c] =
                  IF pathname[c] = "/" THEN rest
                  ELSE Orphaned(rest, pathname[c])]
        ELSE /\ pathname' = pathname
             /\ authForm' = [authForm EXCEPT ![c] =
                  IF call.live THEN [@ EXCEPT !.isLoading = FALSE] ELSE @]
             /\ pend' = [pend EXCEPT ![c] = rest]
     /\ lastOp' = [name |-> "verifyCode", client |-> c, pre |-> db,
                   ok |-> resolved, email |-> call.arg, threw |-> ~resolved,
                   before |-> sentEmail[c]]
     /\ UNCHANGED <<db, nextId, clock, authVars, runs, snap, moveRun, calls,
                    currentNote, delRun, editorVars>>

\* AuthForm: 'Back to Email' is onClick={() => setSentEmail(false)}
BackToEmail(c) ==
  /\ pathname[c] = "/login"
  /\ authForm[c].sentEmail
  /\ authForm' = [authForm EXCEPT ![c].sentEmail = FALSE]
  /\ lastOp' = [name |-> "backToEmail", client |-> c, pre |-> db,
                before |-> sentEmail[c]]
  /\ UNCHANGED <<db, nextId, clock, authVars, runs, snap, moveRun, calls,
                 currentNote, delRun, editorVars, pageVars, pend>>

\* Sidebar: onClick={() => signOut()}, up to the await of db.auth.signOut()
HandleSignOut(c) ==
  /\ Screen(pathname[c], isLoading[c], user[c]) = "notes"
  /\ pend' = [pend EXCEPT ![c] =
       Append(@, Call("signOut", "/", 0, "", NoNotebook, clock))]
  /\ calls' = calls + 1
  /\ UNCHANGED <<db, nextId, clock, authVars, runs, snap, moveRun,
                 currentNote, delRun, editorVars, pageVars, authForm, lastOp>>

\* signOut once db.auth.signOut() settled: router.push('/login'), or the
\* error is logged and rethrown.  The null user arrives through db.useAuth().
SignOut(c, i, net) ==
  LET call == pend[c][i]
      to == IF net
            THEN Redirects("/login", isLoading[c], user[c], sentEmail[c])
            ELSE pathname[c]
  IN /\ call.kind = "signOut"
     /\ pathname' = [pathname EXCEPT ![c] = to]
     /\ authForm' = [authForm EXCEPT ![c] =
          AuthFormOnRoute(@, pathname[c], to)]
     /\ pend' = [pend EXCEPT ![c] =
          PendOnRoute(RemoveAt(@, i), pathname[c], to)]
     /\ lastOp' = [name |-> "signOut", client |-> c, pre |-> db, ok |-> net,
                   threw |-> ~net, before |-> sentEmail[c]]
     /\ UNCHANGED <<db, nextId, clock, authVars, runs, snap, moveRun, calls,
                    currentNote, delRun, editorVars, sentEmail>>

\* the user follows a link or the history to another page of the application
Navigate(c, path) ==
  LET to == Redirects(path, isLoading[c], user[c], sentEmail[c])
  IN /\ path # pathname[c]
     /\ to # pathname[c]
     /\ pathname' = [pathname EXCEPT ![c] = to]
     /\ authForm' = [authForm EXCEPT ![c] =
          AuthFormOnRoute(@, pathname[c], to)]
     /\ pend' = [pend EXCEPT ![c] = PendOnRoute(@, pathname[c], to)]
     /\ UNCHANGED <<db, nextId, clock, authVars, runs, snap, moveRun, calls,
                    currentNote, delRun, editorVars, sentEmail, lastOp>>

ShouldSeed_Always(found) == TRUE

\* !data.notes || data.notes.length === 0
ShouldSeed(found) == found = {}

\* the effect after await db.queryOnce(...): seed when no note came back
QueryOnceResolve(r, net) ==
  LET run == runs[r]
      found == QueryOnceNotes(db, run.user)
  IN /\ run.pc = "query"
     /\ IF ~net
        THEN /\ runs' = [runs EXCEPT ![r].pc = "failed"]
             /\ UNCHANGED <<nextId, previousUserRef>>
        ELSE IF ShouldSeed(found)
        THEN /\ runs' = [runs EXCEPT ![r].pc = "seedNotebook",
                                     ![r].hadNotes = found # {},
                                     ![r].seeded = TRUE,
                                     ![r].notebookId =
                                        NewId("notebooks", nextId.notebooks),
                                     ![r].now = clock]
             /\ nextId' = [nextId EXCEPT !.notebooks = @ + 1]
             /\ UNCHANGED previousUserRef
        ELSE /\ runs' = [runs EXCEPT ![r].pc = "done",
                                     ![r].hadNotes = found # {}]
             /\ previousUserRef' =
                  [previousUserRef EXCEPT ![run.client] = run.user]
             /\ UNCHANGED nextId
     /\ lastOp' = [name |-> "QueryOnceResolve", client |-> run.client, pre |-> db,
                   run |-> r, ok |-> net, found |-> found]
     /\ UNCHANGED <<uiVars, db, clock, isLoading, user, snap, moveRun, calls>>

\* the seeder after its notebook write settled
SeedNotebookTx(r, net) ==
  LET run == runs[r]
      tx == SeedNotebookTxOps(run.user, run.notebookId, run.now)
      ok == TransactOk(db, user[run.client], tx, net)
      n == Len(WelcomeNotes)
  IN /\ run.pc = "seedNotebook"
     /\ db' = Transact(db, user[run.client], tx, net)
     /\ IF ok
        THEN /\ runs' = [runs EXCEPT ![r].pc = "seedNotes",
                           ![r].noteIds =
                             [i \in 1..n |-> NewId("notes", nextId.notes + i - 1)]]
             /\ nextId' = [nextId EXCEPT !.notes = @ + n]
             /\ UNCHANGED previousUserRef
        ELSE /\ runs' = [runs EXCEPT ![r].pc = "done"]
             /\ previousUserRef' =
                  [previousUserRef EXCEPT ![run.client] = run.user]
             /\ UNCHANGED nextId
     /\ lastOp' = [name |-> "SeedNotebookTx", client |-> run.client, pre |-> db,
                   run |-> r, ok |-> ok, tx |-> tx]
     /\ UNCHANGED <<uiVars, clock, isLoading, user, snap, moveRun, calls>>

\* the seeder after its notes write settled, then the rest of the effect
SeedNotesTx(r, net) ==
  LET run == runs[r]
      tx == SeedNotesTxOps(run.user, run.notebookId, run.now, run.noteIds, 1)
      ok == TransactOk(db, user[run.client], tx, net)
  IN /\ run.pc = "seedNotes"
     /\ db' = Transact(db, user[run.client], tx, net)
     /\ runs' = [runs EXCEPT ![r].pc = "done"]
     /\ previousUserRef' = [previousUserRef EXCEPT ![run.client] = run.user]
     /\ lastOp' = [name |-> "SeedNotesTx", client |-> run.client, pre |-> db,
                   run |-> r, ok |-> ok, tx |-> tx]
     /\ UNCHANGED <<uiVars, nextId, clock, isLoading, user, snap, moveRun, calls>>

(***************************************************************************)
(* NoteProvider: the live query.                                           *)
(***************************************************************************)
\* NoteEditor's effect on [currentNote]: the text is reset from the note when
\* the selection changes
EditorEffect(cur, new, text) ==
  IF new = cur THEN text
  ELSE IF new # Null
       THEN [title |-> new.attrs.title, content |-> new.attrs.content]
       ELSE BlankText

HomeSelect_OnlyWhenNone(cur, notes) ==
  IF cur = Null /\ Len(notes) > 0 THEN notes[1] ELSE cur

\* Home: if (notes.length > 0) setCurrentNote(notes[0])
HomeSelect(cur, notes) == IF Len(notes) > 0 THEN notes[1] ELSE cur

\* the store pushes the current result of the client's subscription; Home's
\* effect on [notes] runs with the new list
LiveQueryPush(c) ==
  LET view == QueryView(db, user[c])
  IN /\ user[c] # NoUser
     /\ snap[c] # view
     /\ snap' = [snap EXCEPT ![c] = view]
     /\ currentNote' = [currentNote EXCEPT ![c] = HomeSelect(@, view.notes)]
     /\ editor' = [editor EXCEPT ![c] =
          EditorEffect(currentNote[c], HomeSelect(currentNote[c], view.notes), @)]
     /\ UNCHANGED <<pageVars, formVars, delRun, timer, db, nextId, clock, authVars, runs, moveRun,
                    calls, lastOp>>

(***************************************************************************)
(* NoteProvider: write handlers.  A handler with a single transact is one  *)
(* step; its transaction is built from the client's current snapshot.      *)
(***************************************************************************)
RowIds(rows) == {rows[i].id : i \in DOMAIN rows}

CreateNoteTx_NoNotebookLink(u, noteId, now, title, content, notebookId, tagIds) ==
  << TxUpdate("notes", noteId,
              [title |-> title, content |-> content, createdAt |-> now,
               updatedAt |-> now, isFavorite |-> FALSE]),
     TxLink("notes", noteId, "creator", {u}) >>
  \o (IF tagIds # {}
      THEN << TxLink("notes", noteId, "tags", tagIds) >> ELSE <<>>)

\* the transaction createNote builds
CreateNoteTx(u, noteId, now, title, content, notebookId, tagIds) ==
  << TxUpdate("notes", noteId,
              [title |-> title, content |-> content, createdAt |-> now,
               updatedAt |-> now, isFavorite |-> FALSE]),
     TxLink("notes", noteId, "creator", {u}) >>
  \o (IF notebookId # NoNotebook
      THEN << TxLink("notebooks", notebookId, "notes", {noteId}) >> ELSE <<>>)
  \o (IF tagIds # {}
      THEN << TxLink("notes", noteId, "tags", tagIds) >> ELSE <<>>)

CreateNoteEcho_SecondTimestamp(noteId, now, title, content) ==
  [id |-> noteId, title |-> title, content |-> content, createdAt |-> now,
   updatedAt |-> now + 1, isFavorite |-> FALSE]

\* the record createNote returns
CreateNoteEcho(noteId, now, title, content) ==
  [id |-> noteId, title |-> title, content |-> content, createdAt |-> now,
   updatedAt |-> now, isFavorite |-> FALSE]

CreateNote(c, title, content, notebookId, tagIds, net) ==
  LET noteId == NewId("notes", nextId.notes)
      tx == CreateNoteTx(user[c], noteId, clock, title, content,
                         notebookId, tagIds)
      ok == TransactOk(db, user[c], tx, net)
  IN /\ user[c] # NoUser
     /\ notebookId \in {NoNotebook} \cup RowIds(snap[c].notebooks)
     /\ tagIds \subseteq RowIds(snap[c].tags)
     /\ db' = Transact(db, user[c], tx, net)
     /\ nextId' = IF TransactOk(db, user[c], tx, net)
                  THEN [nextId EXCEPT !.notes = @ + 1] ELSE nextId
     /\ lastOp' = [name |-> "createNote", client |-> c,
                   pre |-> db, ok |-> ok, calls |-> <<tx>>, id |-> noteId,
                   title |-> title, content |-> content,
                   notebookId |-> notebookId, tagIds |-> tagIds,
                   ret |-> CreateNoteEcho(noteId, clock, title, content)]
     /\ calls' = IF TransactOk(db, user[c], tx, net) THEN calls + 1 ELSE calls
     /\ UNCHANGED <<uiVars, clock, authVars, runs, snap, moveRun>>

\* what the editor and the favourite button pass as updates
NotePatches ==
  { [title |-> "B"], [isFavorite |-> TRUE],
    [title |-> "B", content |-> "y"] }

UpdateNoteTx_ResetsFavorite(id, updates, now) ==
  << TxUpdate("notes", id,
              [updatedAt |-> now] @@ updates @@ [isFavorite |-> FALSE]) >>

\* { ...updates, updatedAt: new Date().toISOString() }
UpdateNoteTx(id, updates, now) ==
  << TxUpdate("notes", id, [updatedAt |-> now] @@ updates) >>

UpdateNote(c, id, updates, net) ==
  LET tx == UpdateNoteTx(id, updates, clock)
  IN /\ user[c] # NoUser
     /\ id \in RowIds(snap[c].notes)
     /\ db' = Transact(db, user[c], tx, net)
     /\ lastOp' = [name |-> "updateNote", client |-> c, pre |-> db,
                   ok |-> TransactOk(db, user[c], tx, net), calls |-> <<tx>>,
                   id |-> id, updates |-> updates, now |-> clock]
     /\ calls' = IF TransactOk(db, user[c], tx, net) THEN calls + 1 ELSE calls
     /\ UNCHANGED <<uiVars, nextId, clock, authVars, runs, snap, moveRun>>

\* the record deleteNote removes
DeleteNoteTx(id) == << TxDelete("notes", id) >>

\* the call up to the settlement of its transact; the handler's closure
\* holds the currentNote of the render that created it
DeleteNote(c, id, net) ==
  LET tx == DeleteNoteTx(id)
  IN /\ delRun[c].pc = "idle"
     /\ id \in RowIds(snap[c].notes)
     /\ db' = Transact(db, user[c], tx, net)
     /\ delRun' = [delRun EXCEPT ![c] =
          [pc |-> "settle", id |-> id, seen |-> currentNote[c],
           ok |-> TransactOk(db, user[c], tx, net)]]
     /\ lastOp' = [name |-> "deleteNote", client |-> c, pre |-> db,
                   ok |-> TransactOk(db, user[c], tx, net), calls |-> <<tx>>,
                   id |-> id]
     /\ calls' = IF TransactOk(db, user[c], tx, net) THEN calls + 1 ELSE calls
     /\ UNCHANGED <<pageVars, formVars, currentNote, editorVars, nextId, clock, authVars, runs,
                    snap, moveRun>>

\* if (currentNote && currentNote.id === id) setCurrentNote(null)
ClearsSelection(seen, id) == seen # Null /\ seen.id = id

\* the rest of deleteNote once the promise has settled; a rejection throws
DeleteNoteSettle(c) ==
  LET run == delRun[c]
      clears == run.ok /\ ClearsSelection(run.seen, run.id)
  IN /\ run.pc = "settle"
     /\ currentNote' = [currentNote EXCEPT ![c] = IF clears THEN Null ELSE @]
     /\ editor' = [editor EXCEPT ![c] =
          EditorEffect(currentNote[c],
                       IF clears THEN Null ELSE currentNote[c], @)]
     /\ delRun' = [delRun EXCEPT ![c] = NoDelete]
     /\ lastOp' = [name |-> "deleteNoteSettle", client |-> c, pre |-> db,
                   ok |-> run.ok, id |-> run.id, seen |-> run.seen,
                   before |-> currentNote[c],
                   after |-> IF clears THEN Null ELSE currentNote[c],
                   notes |-> snap[c].notes]
     /\ UNCHANGED <<pageVars, formVars, timer, db, nextId, clock, authVars, runs, snap, moveRun,
                    calls>>

\* NoteList: onClick={() => setCurrentNote(note)}
SelectNote(c, i) ==
  /\ i \in DOMAIN snap[c].notes
  /\ currentNote[c] # snap[c].notes[i]
  /\ currentNote' = [currentNote EXCEPT ![c] = snap[c].notes[i]]
  /\ editor' = [editor EXCEPT ![c] =
       EditorEffect(currentNote[c], snap[c].notes[i], @)]
  /\ UNCHANGED <<pageVars, formVars, db, nextId, clock, authVars, runs, snap, moveRun, calls,
                 delRun, timer, lastOp>>

\* what the user types into the title input and the content textarea
TypedTitles == {"A", "B"}

TypedContents == {"x", "y"}

\* saveNote as the render that precedes the keystroke defined it: it holds
\* that render's currentNote, title and content
SaveNoteClosure(c) ==
  [pc |-> "armed", note |-> currentNote[c], title |-> editor[c].title,
   content |-> editor[c].content]

\* handleTitleChange: setTitle, clearTimeout, setTimeout(() => saveNote())
HandleTitleChange(c, newTitle) ==
  /\ user[c] # NoUser
  /\ currentNote[c] # Null
  /\ newTitle # editor[c].title
  /\ editor' = [editor EXCEPT ![c].title = newTitle]
  /\ timer' = [timer EXCEPT ![c] = SaveNoteClosure(c)]
  /\ UNCHANGED <<pageVars, formVars, db, nextId, clock, authVars, runs, snap, moveRun, calls,
                 currentNote, delRun, lastOp>>

\* handleContentChange: setContent, clearTimeout, setTimeout(() => saveNote())
HandleContentChange(c, newContent) ==
  /\ user[c] # NoUser
  /\ currentNote[c] # Null
  /\ newContent # editor[c].content
  /\ editor' = [editor EXCEPT ![c].content = newContent]
  /\ timer' = [timer EXCEPT ![c] = SaveNoteClosure(c)]
  /\ UNCHANGED <<pageVars, formVars, db, nextId, clock, authVars, runs, snap, moveRun, calls,
                 currentNote, delRun, lastOp>>

\* updateNote(currentNote.id, { title, content }) with saveNote's variables
SaveNoteUpdates(c, closure) ==
  [title |-> closure.title, content |-> closure.content]

\* the timeout fires a second after the last keystroke and runs saveNote;
\* a rejected updateNote is caught and logged
SaveNote(c, net) ==
  LET closure == timer[c]
      tx == UpdateNoteTx(closure.note.id, SaveNoteUpdates(c, closure), clock)
  IN /\ closure # NoTimer
     /\ closure.note # Null
     /\ timer' = [timer EXCEPT ![c] = NoTimer]
     /\ db' = Transact(db, user[c], tx, net)
     /\ lastOp' = [name |-> "saveNote", client |-> c, pre |-> db,
                   ok |-> TransactOk(db, user[c], tx, net), calls |-> <<tx>>,
                   id |-> closure.note.id,
                   updates |-> SaveNoteUpdates(c, closure), now |-> clock,
                   note |-> currentNote[c], shown |-> editor[c]]
     /\ calls' = IF TransactOk(db, user[c], tx, net) THEN calls + 1 ELSE calls
     /\ UNCHANGED <<pageVars, formVars, editor, currentNote, delRun, nextId, clock, authVars, runs,
                    snap, moveRun>>

CreateNotebookTx(u, notebookId, now, name, description) ==
  << TxUpdate("notebooks", notebookId,
              [name |-> name, description |-> description,
               createdAt |-> now]),
     TxLink("notebooks", notebookId, "creator", {u}) >>

CreateNotebook(c, name, net) ==
  LET notebookId == NewId("notebooks", nextId.notebooks)
      tx == CreateNotebookTx(user[c], notebookId, clock, name, "")
  IN /\ user[c] # NoUser
     /\ db' = Transact(db, user[c], tx, net)
     /\ nextId' = IF TransactOk(db, user[c], tx, net)
                  THEN [nextId EXCEPT !.notebooks = @ + 1] ELSE nextId
     /\ lastOp' = [name |-> "createNotebook", client |-> c, pre |-> db,
                   ok |-> TransactOk(db, user[c], tx, net), calls |-> <<tx>>,
                   id |-> notebookId]
     /\ calls' = IF TransactOk(db, user[c], tx, net) THEN calls + 1 ELSE calls
     /\ UNCHANGED <<uiVars, clock, authVars, runs, snap, moveRun>>

\* updateNotebook's callers may leave the description out
Omitted == "<omitted>"

NewNotebookNames == {"Jobs"}

Descriptions == {"d"}

\* description: string = ''
DefaultDescription(description) ==
  IF description = Omitted THEN "" ELSE description

\* db.tx.notebooks[id].update({ name, description })
UpdateNotebookTx(id, name, description) ==
  << TxUpdate("notebooks", id,
              [name |-> name,
               description |-> DefaultDescription(description)]) >>

UpdateNotebook(c, id, name, description, net) ==
  LET tx == UpdateNotebookTx(id, name, description)
  IN /\ user[c] # NoUser
     /\ id \in RowIds(snap[c].notebooks)
     /\ db' = Transact(db, user[c], tx, net)
     /\ lastOp' = [name |-> "updateNotebook", client |-> c, pre |-> db,
                   ok |-> TransactOk(db, user[c], tx, net), calls |-> <<tx>>,
                   id |-> id, newName |-> name, description |-> description]
     /\ calls' = IF TransactOk(db, user[c], tx, net) THEN calls + 1 ELSE calls
     /\ UNCHANGED <<uiVars, nextId, clock, authVars, runs, snap, moveRun>>

DeleteNotebookTx_DeletesNotes(notes, id) ==
  LET InNotebook(note) == note.notebook = id
      notesInNotebook == SelectSeq(notes, InNotebook)
  IN [i \in DOMAIN notesInNotebook |->
        TxDelete("notes", notesInNotebook[i].id)]
     \o << TxDelete("notebooks", id) >>

\* the transaction deleteNotebook builds from the provider's notes
DeleteNotebookTx(notes, id) ==
  LET InNotebook(note) == note.notebook = id
      notesInNotebook == SelectSeq(notes, InNotebook)
  IN [i \in DOMAIN notesInNotebook |->
        TxUnlink("notebooks", id, "notes", {notesInNotebook[i].id})]
     \o << TxDelete("notebooks", id) >>

DeleteNotebook(c, id, net) ==
  LET tx == DeleteNotebookTx(snap[c].notes, id)
  IN /\ id \in RowIds(snap[c].notebooks)
     /\ db' = Transact(db, user[c], tx, net)
     /\ lastOp' = [name |-> "deleteNotebook", client |-> c, pre |-> db,
                   ok |-> TransactOk(db, user[c], tx, net), calls |-> <<tx>>,
                   id |-> id]
     /\ calls' = IF TransactOk(db, user[c], tx, net) THEN calls + 1 ELSE calls
     /\ UNCHANGED <<uiVars, nextId, clock, authVars, runs, snap, moveRun>>

CreateTagTx(u, tagId, now, name) ==
  << TxUpdate("tags", tagId, [name |-> name, createdAt |-> now]),
     TxLink("tags", tagId, "creator", {u}) >>

CreateTag(c, name, net) ==
  LET tagId == NewId("tags", nextId.tags)
      tx == CreateTagTx(user[c], tagId, clock, name)
  IN /\ user[c] # NoUser
     /\ db' = Transact(db, user[c], tx, net)
     /\ nextId' = IF TransactOk(db, user[c], tx, net)
                  THEN [nextId EXCEPT !.tags = @ + 1] ELSE nextId
     /\ lastOp' = [name |-> "createTag", client |-> c, pre |-> db,
                   ok |-> TransactOk(db, user[c], tx, net), calls |-> <<tx>>,
                   id |-> tagId]
     /\ calls' = IF TransactOk(db, user[c], tx, net) THEN calls + 1 ELSE calls
     /\ UNCHANGED <<uiVars, clock, authVars, runs, snap, moveRun>>


(***************************************************************************)
(* The create forms of NoteList and Sidebar: a submit runs the handler up  *)
(* to its await; the rest of the handler runs when the write has settled.  *)
(***************************************************************************)
\* NoteList.handleCreateNote up to its await: createNote(newNoteTitle, '',
\* notebooks[0]?.id) has taken its id() and new Date()
HandleCreateNote(c, title) ==
  LET defaultNotebookId ==
        IF Len(snap[c].notebooks) > 0 THEN snap[c].notebooks[1].id
        ELSE NoNotebook
  IN /\ Screen(pathname[c], isLoading[c], user[c]) = "notes"
     /\ pend' = [pend EXCEPT ![c] =
          Append(@, Call("createNote", "/", NewId("notes", nextId.notes),
                         title, defaultNotebookId, clock))]
     /\ nextId' = [nextId EXCEPT !.notes = @ + 1]
     /\ calls' = calls + 1
     /\ UNCHANGED <<db, clock, authVars, runs, snap, moveRun, currentNote,
                    delRun, editorVars, pageVars, authForm, lastOp>>

\* the note handleCreateNote selects: { ...note, tags: [], notebook }
FullNote(call) ==
  [id |-> call.id,
   attrs |-> [title |-> call.arg, content |-> "", createdAt |-> call.now,
              updatedAt |-> call.now, isFavorite |-> FALSE],
   notebook |-> call.nb, tags |-> {}]

\* createNote's transact settled: on success the form is cleared and the
\* new note is selected; a rejection is caught and logged
CreateNoteSettle(c, i, net) ==
  LET call == pend[c][i]
      tx == CreateNoteTx(user[c], call.id, call.now, call.arg, "", call.nb, {})
      ok == TransactOk(db, user[c], tx, net)
      new == IF ok THEN FullNote(call) ELSE currentNote[c]
  IN /\ call.kind = "createNote"
     /\ user[c] # NoUser
     /\ db' = Transact(db, user[c], tx, net)
     /\ currentNote' = [currentNote EXCEPT ![c] = new]
     /\ editor' = [editor EXCEPT ![c] = EditorEffect(currentNote[c], new, @)]
     /\ pend' = [pend EXCEPT ![c] = RemoveAt(@, i)]
     /\ lastOp' = [name |-> "handleCreateNote", client |-> c, pre |-> db,
                   ok |-> ok, calls |-> <<tx>>, id |-> call.id]
     /\ UNCHANGED <<nextId, clock, authVars, runs, snap, moveRun, calls,
                    delRun, timer, pageVars, authForm>>

\* Sidebar.handleAddNotebook up to its await
HandleAddNotebook(c, name) ==
  /\ Screen(pathname[c], isLoading[c], user[c]) = "notes"
  /\ pend' = [pend EXCEPT ![c] =
       Append(@, Call("createNotebook", "/",
                      NewId("notebooks", nextId.notebooks), name,
                      NoNotebook, clock))]
  /\ nextId' = [nextId EXCEPT !.notebooks = @ + 1]
  /\ calls' = calls + 1
  /\ UNCHANGED <<db, clock, authVars, runs, snap, moveRun, currentNote,
                 delRun, editorVars, pageVars, authForm, lastOp>>

\* createNotebook's transact settled
CreateNotebookSettle(c, i, net) ==
  LET call == pend[c][i]
      tx == CreateNotebookTx(user[c], call.id, call.now, call.arg, "")
  IN /\ call.kind = "createNotebook"
     /\ user[c] # NoUser
     /\ db' = Transact(db, user[c], tx, net)
     /\ pend' = [pend EXCEPT ![c] = RemoveAt(@, i)]
     /\ lastOp' = [name |-> "handleAddNotebook", client |-> c, pre |-> db,
                   ok |-> TransactOk(db, user[c], tx, net), calls |-> <<tx>>,
                   id |-> call.id]
     /\ UNCHANGED <<nextId, clock, authVars, runs, snap, moveRun, calls,
                    currentNote, delRun, editorVars, pageVars, authForm>>

\* Sidebar.handleAddTag up to its await
HandleAddTag(c, name) ==
  /\ Screen(pathname[c], isLoading[c], user[c]) = "notes"
  /\ pend' = [pend EXCEPT ![c] =
       Append(@, Call("createTag", "/", NewId("tags", nextId.tags), name,
                      NoNotebook, clock))]
  /\ nextId' = [nextId EXCEPT !.tags = @ + 1]
  /\ calls' = calls + 1
  /\ UNCHANGED <<db, clock, authVars, runs, snap, moveRun, currentNote,
                 delRun, editorVars, pageVars, authForm, lastOp>>

\* createTag's transact settled
CreateTagSettle(c, i, net) ==
  LET call == pend[c][i]
      tx == CreateTagTx(user[c], call.id, call.now, call.arg)
  IN /\ call.kind = "createTag"
     /\ user[c] # NoUser
     /\ db' = Transact(db, user[c], tx, net)
     /\ pend' = [pend EXCEPT ![c] = RemoveAt(@, i)]
     /\ lastOp' = [name |-> "handleAddTag", client |-> c, pre |-> db,
                   ok |-> TransactOk(db, user[c], tx, net), calls |-> <<tx>>,
                   id |-> call.id]
     /\ UNCHANGED <<nextId, clock, authVars, runs, snap, moveRun, calls,
                    currentNote, delRun, editorVars, pageVars, authForm>>

DeleteTagTx_UnlinksEveryTag(notes, id) ==
  LET HasTag(note) == id \in note.tags
      notesWithTag == SelectSeq(notes, HasTag)
  IN [i \in DOMAIN notesWithTag |->
        TxUnlink("notes", notesWithTag[i].id, "tags", notesWithTag[i].tags)]
     \o << TxDelete("tags", id) >>

\* the transaction deleteTag builds from the provider's notes
DeleteTagTx(notes, id) ==
  LET HasTag(note) == id \in note.tags
      notesWithTag == SelectSeq(notes, HasTag)
  IN [i \in DOMAIN notesWithTag |->
        TxUnlink("notes", notesWithTag[i].id, "tags", {id})]
     \o << TxDelete("tags", id) >>

DeleteTag(c, id, net) ==
  LET tx == DeleteTagTx(snap[c].notes, id)
  IN /\ id \in RowIds(snap[c].tags)
     /\ db' = Transact(db, user[c], tx, net)
     /\ lastOp' = [name |-> "deleteTag", client |-> c, pre |-> db,
                   ok |-> TransactOk(db, user[c], tx, net), calls |-> <<tx>>,
                   id |-> id]
     /\ calls' = IF TransactOk(db, user[c], tx, net) THEN calls + 1 ELSE calls
     /\ UNCHANGED <<uiVars, nextId, clock, authVars, runs, snap, moveRun>>

AddTagToNoteTx(noteId, tagId) == << TxLink("notes", noteId, "tags", {tagId}) >>

AddTagToNote(c, noteId, tagId, net) ==
  LET tx == AddTagToNoteTx(noteId, tagId)
  IN /\ noteId \in RowIds(snap[c].notes)
     /\ tagId \in RowIds(snap[c].tags)
     /\ db' = Transact(db, user[c], tx, net)
     /\ lastOp' = [name |-> "addTagToNote", client |-> c, pre |-> db,
                   ok |-> TransactOk(db, user[c], tx, net), calls |-> <<tx>>,
                   id |-> noteId, tagId |-> tagId,
                   selected |-> currentNote[c]]
     /\ calls' = IF TransactOk(db, user[c], tx, net) THEN calls + 1 ELSE calls
     /\ UNCHANGED <<uiVars, nextId, clock, authVars, runs, snap, moveRun>>

RemoveTagFromNoteTx_DeletesTag(noteId, tagId) ==
  << TxDelete("tags", tagId) >>

RemoveTagFromNoteTx(noteId, tagId) ==
  << TxUnlink("notes", noteId, "tags", {tagId}) >>

RemoveTagFromNote(c, noteId, tagId, net) ==
  LET tx == RemoveTagFromNoteTx(noteId, tagId)
  IN /\ noteId \in RowIds(snap[c].notes)
     /\ tagId \in RowIds(snap[c].tags)
     /\ db' = Transact(db, user[c], tx, net)
     /\ lastOp' = [name |-> "removeTagFromNote", client |-> c, pre |-> db,
                   ok |-> TransactOk(db, user[c], tx, net), calls |-> <<tx>>,
                   id |-> noteId, tagId |-> tagId]
     /\ calls' = IF TransactOk(db, user[c], tx, net) THEN calls + 1 ELSE calls
     /\ UNCHANGED <<uiVars, nextId, clock, authVars, runs, snap, moveRun>>

(***************************************************************************)
(* moveNoteToNotebook: up to two transact calls, one await after each.     *)
(***************************************************************************)
\* notes.find(n => n.id === noteId)?.notebook, NoNotebook when there is none
CurrentNotebook(notes, noteId) ==
  IF \E i \in DOMAIN notes : notes[i].id = noteId
  THEN notes[CHOOSE i \in DOMAIN notes : notes[i].id = noteId].notebook
  ELSE NoNotebook

MoveFirstCall_SkipsUnlink(notes, noteId, notebookId) ==
  << TxLink("notebooks", notebookId, "notes", {noteId}) >>

MoveFirstCall_AlwaysUnlinks(notes, noteId, notebookId) ==
  << TxUnlink("notebooks", CurrentNotebook(notes, noteId), "notes", {noteId}) >>

\* the first transact of moveNoteToNotebook
MoveFirstCall(notes, noteId, notebookId) ==
  IF CurrentNotebook(notes, noteId) # NoNotebook
  THEN << TxUnlink("notebooks", CurrentNotebook(notes, noteId), "notes",
                   {noteId}) >>
  ELSE << TxLink("notebooks", notebookId, "notes", {noteId}) >>

MoveLinkCall(noteId, notebookId) ==
  << TxLink("notebooks", notebookId, "notes", {noteId}) >>

\* the call up to the settlement of its first transact
MoveNoteToNotebook(c, noteId, notebookId, net) ==
  LET tx == MoveFirstCall(snap[c].notes, noteId, notebookId)
      ok == TransactOk(db, user[c], tx, net)
      unlinking == tx[1].op = "unlink"
  IN /\ moveRun[c].pc = "idle"
     /\ noteId \in RowIds(snap[c].notes)
     /\ notebookId \in RowIds(snap[c].notebooks)
     /\ db' = Transact(db, user[c], tx, net)
     /\ moveRun' = [moveRun EXCEPT ![c] =
          IF unlinking /\ ok
          THEN [pc |-> "link", noteId |-> noteId, notebookId |-> notebookId,
                calls |-> <<tx>>,
                had |-> CurrentNotebook(snap[c].notes, noteId)]
          ELSE NoMove]
     /\ lastOp' = [name |-> "moveNoteToNotebook", client |-> c, pre |-> db,
                   ok |-> ok, calls |-> <<tx>>, id |-> noteId,
                   notebookId |-> notebookId,
                   had |-> CurrentNotebook(snap[c].notes, noteId),
                   done |-> ~(unlinking /\ ok)]
     /\ calls' = IF TransactOk(db, user[c], tx, net) THEN calls + 1 ELSE calls
     /\ UNCHANGED <<uiVars, nextId, clock, authVars, runs, snap>>

\* the call after its unlink resolved: the link, then return
MoveLink(c, net) ==
  LET run == moveRun[c]
      tx == MoveLinkCall(run.noteId, run.notebookId)
  IN /\ run.pc = "link"
     /\ db' = Transact(db, user[c], tx, net)
     /\ moveRun' = [moveRun EXCEPT ![c] = NoMove]
     /\ lastOp' = [name |-> "moveNoteToNotebook", client |-> c, pre |-> db,
                   ok |-> TransactOk(db, user[c], tx, net),
                   calls |-> Append(run.calls, tx), id |-> run.noteId,
                   notebookId |-> run.notebookId, had |-> run.had,
                   done |-> TRUE]
     /\ UNCHANGED <<uiVars, nextId, clock, authVars, runs, snap, calls>>

(***************************************************************************)
(* Specifications.                                                         *)
(***************************************************************************)
\* the write handlers a signed-in client may call, on what its lists show
NoteCalls(c, net) ==
  \/ \E t \in Titles, x \in Contents :
       \E b \in {NoNotebook} \cup RowIds(snap[c].notebooks) :
         \E ts \in SUBSET RowIds(snap[c].tags) :
           CreateNote(c, t, x, b, ts, net)
  \/ \E id \in RowIds(snap[c].notes) : DeleteNote(c, id, net)
  \/ \E name \in NotebookNames : CreateNotebook(c, name, net)
  \/ \E id \in RowIds(snap[c].notebooks) : DeleteNotebook(c, id, net)
  \/ \E i \in DOMAIN TagNames : CreateTag(c, TagNames[i], net)
  \/ \E id \in RowIds(snap[c].tags) : DeleteTag(c, id, net)
  \/ \E n \in RowIds(snap[c].notes), t \in RowIds(snap[c].tags) :
       AddTagToNote(c, n, t, net)
  \/ \E n \in RowIds(snap[c].notes), t \in RowIds(snap[c].tags) :
       RemoveTagFromNote(c, n, t, net)
  \/ \E n \in RowIds(snap[c].notes), b \in RowIds(snap[c].notebooks) :
       MoveNoteToNotebook(c, n, b, net)

\* A session past onboarding: both tabs are signed in, tab2 as u, nothing is
\* stored because the notebook write of each tab's seeder was rejected, and
\* each effect has recorded its user.
FinishedRun(c, u, k) ==
  [NewRun(c, u) EXCEPT !.pc = "done", !.seeded = TRUE,
                       !.notebookId = NewId("notebooks", k)]

SignedIn(u) ==
  /\ db = EmptyDb
  /\ nextId = [notes |-> 1, notebooks |-> 3, tags |-> 1]
  /\ clock = 0
  /\ isLoading = [c \in Clients |-> FALSE]
  /\ user = [c \in Clients |-> IF c = "tab2" THEN u ELSE "alice"]
  /\ previousUserRef = user
  /\ runs = << FinishedRun("tab1", "alice", 1), FinishedRun("tab2", u, 2) >>
  /\ snap = [c \in Clients |-> EmptyView]
  /\ moveRun = [c \in Clients |-> NoMove]
  /\ calls = 0
  /\ UiInit
  /\ pathname = AtHome
  /\ lastOp = [name |-> "init", client |-> "", pre |-> EmptyDb]

Next ==
  \/ Tick
  \/ \E c \in Clients : LiveQueryPush(c)
  \/ \E c \in Clients, net \in BOOLEAN : calls < MaxCalls /\ NoteCalls(c, net)
  \/ \E c \in Clients, net \in BOOLEAN : MoveLink(c, net)
  \/ \E c \in Clients : DeleteNoteSettle(c)

\* two tabs of one user
Spec == SignedIn("alice") /\ [][Next]_vars

\* two users
SpecUsers == SignedIn("bob") /\ [][Next]_vars

\* the handlers that work on tags, two tabs of one user
NextTags ==
  \/ \E c \in Clients : LiveQueryPush(c)
  \/ \E c \in Clients, net \in BOOLEAN :
       /\ calls < MaxTagCalls
       /\ \/ \E i \in DOMAIN TagNames : CreateTag(c, TagNames[i], net)
          \/ \E t \in Titles, x \in Contents :
               \E ts \in SUBSET RowIds(snap[c].tags) :
                 CreateNote(c, t, x, NoNotebook, ts, net)
          \/ \E n \in RowIds(snap[c].notes), t \in RowIds(snap[c].tags) :
               AddTagToNote(c, n, t, net)
          \/ \E n \in RowIds(snap[c].notes), t \in RowIds(snap[c].tags) :
               RemoveTagFromNote(c, n, t, net)
          \/ \E id \in RowIds(snap[c].tags) : DeleteTag(c, id, net)

SpecTags == SignedIn("alice") /\ [][NextTags]_vars

\* editing: notes and notebooks are created and then updated
NextEdit ==
  \/ Tick
  \/ \E c \in Clients : LiveQueryPush(c)
  \/ \E c \in Clients, net \in BOOLEAN :
       /\ calls < MaxEditCalls
       /\ \/ \E name \in NotebookNames : CreateNotebook(c, name, net)
          \/ CreateTag(c, TagNames[1], net)
          \/ \E t \in Titles, x \in Contents :
               \E b \in {NoNotebook} \cup RowIds(snap[c].notebooks) :
                 \E ts \in SUBSET RowIds(snap[c].tags) :
                   CreateNote(c, t, x, b, ts, net)
          \/ \E id \in RowIds(snap[c].notes), updates \in NotePatches :
               UpdateNote(c, id, updates, net)
          \/ \E id \in RowIds(snap[c].notebooks), name \in NewNotebookNames :
               \E description \in Descriptions \cup {Omitted} :
                 UpdateNotebook(c, id, name, description, net)

SpecEdit == SignedIn("alice") /\ [][NextEdit]_vars

\* the create forms of the home page
NextForms ==
  \/ \E c \in Clients : LiveQueryPush(c)
  \/ \E c \in Clients :
       /\ calls < MaxFormCalls /\ Len(pend[c]) < MaxPending
       /\ \/ \E t \in Titles : HandleCreateNote(c, t)
          \/ \E name \in NotebookNames : HandleAddNotebook(c, name)
          \/ \E i \in DOMAIN TagNames : HandleAddTag(c, TagNames[i])
  \/ \E c \in Clients : \E i \in DOMAIN pend[c], net \in BOOLEAN :
       \/ CreateNoteSettle(c, i, net)
       \/ CreateNotebookSettle(c, i, net)
       \/ CreateTagSettle(c, i, net)

SpecForms == SignedIn("alice") /\ [][NextForms]_vars

\* the editor: typing, the autosave timeout, selection and Home's effect
NextEditor ==
  \/ \E c \in Clients : LiveQueryPush(c)
  \/ \E c \in Clients, net \in BOOLEAN :
       /\ calls < MaxEditorCalls
       /\ \/ \E t \in Titles, x \in Contents :
               CreateNote(c, t, x, NoNotebook, {}, net)
          \/ SaveNote(c, net)
  \/ \E c \in Clients : \E t \in TypedTitles : HandleTitleChange(c, t)
  \/ \E c \in Clients : \E x \in TypedContents : HandleContentChange(c, x)
  \/ \E c \in Clients : \E i \in DOMAIN snap[c].notes : SelectNote(c, i)

SpecEditor == SignedIn("alice") /\ [][NextEditor]_vars

\* the home page: the note list, the editor's tag menu and Home's effect
NextHome ==
  \/ Tick
  \/ \E c \in Clients : LiveQueryPush(c)
  \/ \E c \in Clients, net \in BOOLEAN :
       /\ calls < MaxHomeCalls
       /\ \/ CreateTag(c, TagNames[1], net)
          \/ \E t \in Titles, x \in Contents :
               CreateNote(c, t, x, NoNotebook, {}, net)
          \/ \E t \in RowIds(snap[c].tags) :
               /\ currentNote[c] # Null
               /\ AddTagToNote(c, currentNote[c].id, t, net)
  \/ \E c \in Clients : \E i \in DOMAIN snap[c].notes : SelectNote(c, i)

SpecHome == SignedIn("alice") /\ [][NextHome]_vars

\* selection: the note list, the editor's delete button and Home's effect
NextSelect ==
  \/ \E c \in Clients : LiveQueryPush(c)
  \/ \E c \in Clients, net \in BOOLEAN :
       /\ calls < MaxCalls
       /\ \/ \E t \in Titles, x \in Contents :
               CreateNote(c, t, x, NoNotebook, {}, net)
          \/ \E id \in RowIds(snap[c].notes) : DeleteNote(c, id, net)
  \/ \E c \in Clients : DeleteNoteSettle(c)
  \/ \E c \in Clients : \E i \in DOMAIN snap[c].notes : SelectNote(c, i)

SpecSelect == SignedIn("alice") /\ [][NextSelect]_vars

\* Authentication and routing, from the load of any page in each tab.
PageLoad == \E paths \in [Clients -> Paths] : Mounted(paths)

NextAuth ==
  \/ \E c \in Clients : \E u \in SignIns(c) \cup {NoUser} : AuthEmit(c, u)
  \/ \E c \in Clients, email \in Emails :
       /\ calls < MaxAuthCalls /\ Len(pend[c]) < MaxPending
       /\ HandleEmailSubmit(c, email)
  \/ \E c \in Clients : \E i \in DOMAIN pend[c], net \in BOOLEAN :
       SignIn(c, i, net)
  \/ \E c \in Clients, email \in Emails :
       /\ calls < MaxAuthCalls /\ Len(pend[c]) < MaxPending
       /\ HandleCodeSubmit(c, email)
  \/ \E c \in Clients : \E i \in DOMAIN pend[c], resolved \in BOOLEAN :
       VerifyCode(c, i, resolved)
  \/ \E c \in Clients : BackToEmail(c)
  \/ \E c \in Clients :
       /\ calls < MaxAuthCalls /\ Len(pend[c]) < MaxPending
       /\ HandleSignOut(c)
  \/ \E c \in Clients : \E i \in DOMAIN pend[c], net \in BOOLEAN :
       SignOut(c, i, net)
  \/ \E c \in Clients, path \in Paths : Navigate(c, path)

SpecAuth == PageLoad /\ [][NextAuth]_vars

\* Sign-in and onboarding, from the mount of the providers.
NextOnboard ==
  \/ \E c \in Clients : \E u \in SignIns(c) \cup {NoUser} : AuthEmit(c, u)
  \/ \E r \in DOMAIN runs : \E net \in BOOLEAN : QueryOnceResolve(r, net)
  \/ \E r \in DOMAIN runs : \E net \in BOOLEAN : SeedNotebookTx(r, net)
  \/ \E r \in DOMAIN runs : \E net \in BOOLEAN : SeedNotesTx(r, net)

SpecOnboard == Init /\ [][NextOnboard]_vars

\* Two tabs of alice signed in together and both one-shot queries came back
\* empty.  The seeder of tab1 created its notebook and failed on its notes; the
\* seeder of tab2 created its notebook and is about to write its notes.
OnboardingDb ==
  ApplyTx(ApplyTx(EmptyDb,
                  SeedNotebookTxOps("alice", NewId("notebooks", 1), 0)),
          SeedNotebookTxOps("alice", NewId("notebooks", 2), 0))

SeededNoteIds(first) == [i \in 1..Len(WelcomeNotes) |-> NewId("notes", first + i)]

Onboarding ==
  /\ db = OnboardingDb
  /\ nextId = [notes |-> 2 * Len(WelcomeNotes) + 1, notebooks |-> 3, tags |-> 1]
  /\ clock = 0
  /\ isLoading = [c \in Clients |-> FALSE]
  /\ user = [c \in Clients |-> "alice"]
  /\ previousUserRef = [c \in Clients |-> IF c = "tab1" THEN "alice" ELSE NoUser]
  /\ runs = << [FinishedRun("tab1", "alice", 1) EXCEPT
                  !.noteIds = SeededNoteIds(0)],
               [NewRun("tab2", "alice") EXCEPT
                  !.pc = "seedNotes", !.seeded = TRUE,
                  !.notebookId = NewId("notebooks", 2),
                  !.noteIds = SeededNoteIds(Len(WelcomeNotes))] >>
  /\ snap = [c \in Clients |-> EmptyView]
  /\ moveRun = [c \in Clients |-> NoMove]
  /\ calls = 0
  /\ UiInit
  /\ pathname = AtHome
  /\ lastOp = [name |-> "init", client |-> "", pre |-> EmptyDb]

\* the note the editor shows unless another one was picked: the first row
FirstNote(notes) == {notes[k].id : k \in DOMAIN notes \cap {1}}

\* the handlers that link notes to notebooks, interleaved with the seeder
NextLinks ==
  \/ \E c \in Clients : LiveQueryPush(c)
  \/ \E r \in DOMAIN runs : \E net \in BOOLEAN : SeedNotesTx(r, net)
  \/ \E c \in Clients, net \in BOOLEAN :
       \/ \E t \in Titles, x \in Contents :
            \E b \in {NoNotebook} \cup RowIds(snap[c].notebooks) :
              calls < MaxLinkCalls /\ CreateNote(c, t, x, b, {}, net)
       \/ \E id \in RowIds(snap[c].notebooks) :
            calls < MaxLinkCalls /\ DeleteNotebook(c, id, net)
       \/ \E n \in FirstNote(snap[c].notes), b \in RowIds(snap[c].notebooks) :
            calls < MaxLinkCalls /\ MoveNoteToNotebook(c, n, b, net)
       \/ MoveLink(c, net)

SpecLinks == Onboarding /\ [][NextLinks]_vars

(***************************************************************************)
(* Claims about sign-in and onboarding (SpecOnboard).                      *)
(***************************************************************************)
SeederRuns(u) == {r \in DOMAIN runs : runs[r].user = u /\ runs[r].seeded}

\* C1: for every user id, over any sequence of runs of the identity-watching
\* effect, re-runs that start while an earlier run is in flight included,
\* seedUserWithOnboardingNotes is invoked at most once for that id.
C1_SeederAtMostOncePerUser ==
  \A u \in Users : Cardinality(SeederRuns(u)) <= 1

Range(seq) == {seq[i] : i \in DOMAIN seq}

NotebooksOf(S, n) == {e[1] : e \in {x \in S.nbNotes : x[2] = n}}

\* C2: an invocation of the seeder whose remote calls all succeed creates
\* exactly one notebook, named 'Getting Started', and exactly five notes, each
\* linked to the user as creator and to that notebook, the first one favorite
\* and the other four not.
C2_SeederCreatesNotebookAndFiveNotes ==
  /\ (lastOp.name = "SeedNotebookTx" /\ lastOp.ok) =>
       LET run == runs[lastOp.run]
       IN /\ DOMAIN db.ent \ DOMAIN lastOp.pre.ent = {run.notebookId}
          /\ db.ent[run.notebookId].ns = "notebooks"
          /\ db.ent[run.notebookId].attrs.name = "Getting Started"
          /\ db.creator[run.notebookId] = run.user
  /\ (lastOp.name = "SeedNotesTx" /\ lastOp.ok) =>
       LET run == runs[lastOp.run]
       IN /\ DOMAIN db.ent \ DOMAIN lastOp.pre.ent = Range(run.noteIds)
          /\ Cardinality(Range(run.noteIds)) = 5
          /\ Len(run.noteIds) = 5
          /\ run.notebookId \in DOMAIN db.ent
          /\ db.ent[run.notebookId].attrs.name = "Getting Started"
          /\ \A i \in DOMAIN run.noteIds :
               LET n == run.noteIds[i]
               IN /\ db.ent[n].ns = "notes"
                  /\ db.creator[n] = run.user
                  /\ NotebooksOf(db, n) = {run.notebookId}
                  /\ db.ent[n].attrs.isFavorite = (i = 1)

C2_SeederFinished == lastOp.name = "SeedNotesTx" /\ lastOp.ok

\* C3: a run of the effect whose one-shot query returned at least one note of
\* the user issues no onboarding write: it never enters the seeder, allocates
\* no notebook and no note, and no seeder transaction is ever its own.
C3_NoSeedingWhenNotesExist ==
  /\ \A r \in DOMAIN runs :
       runs[r].hadNotes =>
         /\ ~runs[r].seeded
         /\ runs[r].pc = "done"
         /\ runs[r].notebookId = 0
         /\ runs[r].noteIds = <<>>
  /\ lastOp.name \in {"SeedNotebookTx", "SeedNotesTx"} =>
       ~runs[lastOp.run].hadNotes
  /\ (lastOp.name = "QueryOnceResolve" /\ lastOp.ok /\ lastOp.found # {}) =>
       /\ db = lastOp.pre
       /\ runs[lastOp.run].hadNotes

C3_QueryFoundNotes ==
  lastOp.name = "QueryOnceResolve" /\ lastOp.ok /\ lastOp.found # {}

(***************************************************************************)
(* Claims about the write handlers of NoteProvider.                        *)
(***************************************************************************)
TagsOf(S, n) == {e[2] : e \in {x \in S.noteTags : x[1] = n}}

NotesIn(S, b) == {n \in DOMAIN S.ent : <<b, n>> \in S.nbNotes}

NotesWith(S, t) == {n \in DOMAIN S.ent : <<n, t>> \in S.noteTags}

ViewRows(S, u) == Range(QueryView(S, u).notes)

\* C4: after deleteNotebook(id) the notebook record is gone, every note that
\* was linked to it still exists unchanged and has no notebook, and no note,
\* in the store or in any client's query result, references the notebook.
C4_DeleteNotebookKeepsNotesUnlinked ==
  (lastOp.name = "deleteNotebook" /\ lastOp.ok) =>
    /\ lastOp.id \notin DOMAIN db.ent
    /\ \A e \in db.nbNotes : e[1] # lastOp.id
    /\ \A n \in NotesIn(lastOp.pre, lastOp.id) :
         /\ n \in DOMAIN db.ent
         /\ db.ent[n] = lastOp.pre.ent[n]
         /\ NotebooksOf(db, n) = {}
    /\ \A c \in Clients : \A row \in ViewRows(db, user[c]) :
         row.notebook # lastOp.id

C4_NotebookWithNotesDeleted ==
  /\ lastOp.name = "deleteNotebook"
  /\ lastOp.ok
  /\ NotesIn(lastOp.pre, lastOp.id) # {}

\* C5: after deleteTag(id) the tag record is gone, every note that carried the
\* tag still exists unchanged, no note carries the tag, and every note keeps
\* exactly its other tags; the other tag records are unchanged.
C5_DeleteTagKeepsNotesAndOtherTags ==
  (lastOp.name = "deleteTag" /\ lastOp.ok) =>
    /\ lastOp.id \notin DOMAIN db.ent
    /\ \A e \in db.noteTags : e[2] # lastOp.id
    /\ \A n \in NotesWith(lastOp.pre, lastOp.id) :
         n \in DOMAIN db.ent /\ db.ent[n] = lastOp.pre.ent[n]
    /\ \A n \in IdsOf(lastOp.pre, "notes") :
         TagsOf(db, n) = TagsOf(lastOp.pre, n) \ {lastOp.id}
    /\ \A t \in IdsOf(lastOp.pre, "tags") \ {lastOp.id} :
         t \in DOMAIN db.ent /\ db.ent[t] = lastOp.pre.ent[t]
    /\ \A c \in Clients : \A row \in ViewRows(db, user[c]) :
         lastOp.id \notin row.tags

C5_TagDeletedFromNoteWithTwoTags ==
  /\ lastOp.name = "deleteTag"
  /\ lastOp.ok
  /\ \E n \in NotesWith(lastOp.pre, lastOp.id) :
       TagsOf(lastOp.pre, n) \ {lastOp.id} # {}

\* C6: in every state reached by interleavings of createNote,
\* moveNoteToNotebook, deleteNotebook and the onboarding seeder, issued by
\* two tabs of one user, each note is linked to at most one notebook.
C6_AtMostOneNotebookPerNote ==
  \A n \in IdsOf(db, "notes") : Cardinality(NotebooksOf(db, n)) <= 1

\* a link was applied to a note that the store had in another notebook
C6_LinkReplacedNotebook ==
  /\ lastOp.name = "moveNoteToNotebook"
  /\ lastOp.ok
  /\ lastOp.calls[Len(lastOp.calls)][1].op = "link"
  /\ NotebooksOf(lastOp.pre, lastOp.id) \ {lastOp.notebookId} # {}
  /\ NotebooksOf(db, lastOp.id) = {lastOp.notebookId}
  /\ \E r \in DOMAIN runs : lastOp.id \in Range(runs[r].noteIds)

SnapRows(c) ==
  Range(snap[c].notes) \cup Range(snap[c].notebooks) \cup Range(snap[c].tags)

\* C7: with two users at work, every record in the notes, notebooks and tags
\* lists a client holds has that client's user as its creator, and so have the
\* notebook and the tags its note rows embed.
C7_ListsHoldOnlyOwnRecords ==
  \A c \in Clients :
    /\ \A row \in SnapRows(c) :
         row.id \in DOMAIN db.creator => db.creator[row.id] = user[c]
    /\ \A row \in Range(snap[c].notes) :
         \A x \in ({row.notebook} \ {NoNotebook}) \cup row.tags :
           x \in DOMAIN db.creator => db.creator[x] = user[c]

C7_BothUsersHoldRecords ==
  /\ user["tab1"] # user["tab2"]
  /\ \A c \in Clients : \E row \in SnapRows(c) : row.id \in DOMAIN db.ent
  /\ \E id \in DOMAIN db.creator : db.creator[id] = user["tab1"]
  /\ \E id \in DOMAIN db.creator : db.creator[id] = user["tab2"]

NoteFields == {"title", "content", "createdAt", "updatedAt", "isFavorite"}

\* C8: a createNote that resolves returns the given title and content,
\* isFavorite false and createdAt equal to updatedAt, and the store holds the
\* same field values under the returned id.
C8_CreateNoteEchoesWhatItWrote ==
  (lastOp.name = "createNote" /\ lastOp.ok) =>
    /\ lastOp.ret.title = lastOp.title
    /\ lastOp.ret.content = lastOp.content
    /\ lastOp.ret.isFavorite = FALSE
    /\ lastOp.ret.createdAt = lastOp.ret.updatedAt
    /\ lastOp.ret.id \in DOMAIN db.ent
    /\ db.ent[lastOp.ret.id].ns = "notes"
    /\ DOMAIN db.ent[lastOp.ret.id].attrs = NoteFields
    /\ \A f \in NoteFields : db.ent[lastOp.ret.id].attrs[f] = lastOp.ret[f]

C8_CreateNoteResolved ==
  lastOp.name = "createNote" /\ lastOp.ok /\ lastOp.ret.createdAt > 0

StepsWith(tx, op, label) ==
  {i \in DOMAIN tx : tx[i].op = op /\ tx[i].label = label}

\* C9: createNote issues exactly one transaction holding the field write, the
\* creator link and, only when given, the notebook link and the tag links;
\* accepted, the note exists with its creator and every requested link;
\* rejected, the store is unchanged and holds no part of the note; a note
\* created without notebook and tags shows none in the notes view.
C9_CreateNoteIsOneTransaction ==
  lastOp.name = "createNote" =>
    LET tx == lastOp.calls[1]
        n == lastOp.id
    IN /\ Len(lastOp.calls) = 1
       /\ \E i \in StepsWith(tx, "update", "") :
            tx[i].ns = "notes" /\ tx[i].id = n
       /\ \E i \in StepsWith(tx, "link", "creator") : tx[i].id = n
       /\ (lastOp.notebookId # NoNotebook) <=>
            \E i \in StepsWith(tx, "link", "notes") :
              tx[i].id = lastOp.notebookId /\ tx[i].targets = {n}
       /\ (lastOp.notebookId = NoNotebook) <=> StepsWith(tx, "link", "notes") = {}
       /\ (lastOp.tagIds # {}) <=>
            \E i \in StepsWith(tx, "link", "tags") :
              tx[i].id = n /\ tx[i].targets = lastOp.tagIds
       /\ (lastOp.tagIds = {}) <=> StepsWith(tx, "link", "tags") = {}
       /\ lastOp.ok =>
            /\ n \in DOMAIN db.ent
            /\ db.creator[n] = user[lastOp.client]
            /\ NotebooksOf(db, n) = {lastOp.notebookId} \ {NoNotebook}
            /\ TagsOf(db, n) = lastOp.tagIds
            /\ \E row \in ViewRows(db, user[lastOp.client]) :
                 /\ row.id = n
                 /\ lastOp.notebookId = NoNotebook => row.notebook = NoNotebook
                 /\ lastOp.tagIds = {} => row.tags = {}
       /\ ~lastOp.ok =>
            /\ db = lastOp.pre
            /\ n \notin DOMAIN db.ent \cup DOMAIN db.creator
            /\ NotebooksOf(db, n) = {} /\ TagsOf(db, n) = {}

C9_CreatedWithNotebookAndTags ==
  /\ lastOp.name = "createNote"
  /\ lastOp.ok
  /\ lastOp.notebookId # NoNotebook
  /\ lastOp.tagIds # {}

\* C10: moveNoteToNotebook on a note for which the provider's notes show no
\* notebook issues exactly one call, the link to the target notebook, and no
\* unlink.
C10_MoveWithoutNotebookOnlyLinks ==
  (lastOp.name = "moveNoteToNotebook" /\ lastOp.had = NoNotebook) =>
    /\ lastOp.done
    /\ lastOp.calls = << MoveLinkCall(lastOp.id, lastOp.notebookId) >>
    /\ \A i \in DOMAIN lastOp.calls : \A j \in DOMAIN lastOp.calls[i] :
         lastOp.calls[i][j].op # "unlink"
    /\ moveRun[lastOp.client].pc = "idle"

C10_MovedNoteWithoutNotebook ==
  /\ lastOp.name = "moveNoteToNotebook"
  /\ lastOp.had = NoNotebook
  /\ lastOp.ok
  /\ NotebooksOf(db, lastOp.id) = {lastOp.notebookId}

\* C11: moveNoteToNotebook on a note shown in notebook X first issues the
\* unlink from X alone; a rejected unlink ends the call with the store
\* unchanged and no link issued; an accepted unlink leaves the call pending
\* with the note out of X, and only then the link to the target is issued as a
\* second transaction; a rejected link leaves the note as the unlink left it.
C11_MoveUnlinksThenLinks ==
  (lastOp.name = "moveNoteToNotebook" /\ lastOp.had # NoNotebook) =>
    LET n == lastOp.id
        first == lastOp.calls[1]
    IN /\ first = << TxUnlink("notebooks", lastOp.had, "notes", {n}) >>
       /\ Len(lastOp.calls) \in {1, 2}
       /\ Len(lastOp.calls) = 1 =>
            /\ lastOp.ok <=> ~lastOp.done
            /\ ~lastOp.ok => db = lastOp.pre /\ moveRun[lastOp.client].pc = "idle"
            /\ lastOp.ok =>
                 /\ moveRun[lastOp.client].pc = "link"
                 /\ NotebooksOf(db, n) = NotebooksOf(lastOp.pre, n) \ {lastOp.had}
                 /\ NotebooksOf(lastOp.pre, n) = {lastOp.had} =>
                      \A row \in ViewRows(db, user[lastOp.client]) :
                        row.id = n => row.notebook = NoNotebook
       /\ Len(lastOp.calls) = 2 =>
            /\ lastOp.done
            /\ lastOp.calls[2] = MoveLinkCall(n, lastOp.notebookId)
            /\ lastOp.ok => NotebooksOf(db, n) = {lastOp.notebookId}
            /\ ~lastOp.ok => db = lastOp.pre
  /\ \A c \in Clients :
       moveRun[c].pc = "link" =>
         /\ moveRun[c].had # NoNotebook
         /\ moveRun[c].calls =
              << << TxUnlink("notebooks", moveRun[c].had, "notes",
                             {moveRun[c].noteId}) >> >>

\* the link of a move was rejected after its unlink had taken the note out
C11_LinkRejectedAfterUnlink ==
  /\ lastOp.name = "moveNoteToNotebook"
  /\ lastOp.had # NoNotebook
  /\ Len(lastOp.calls) = 2
  /\ ~lastOp.ok
  /\ lastOp.id \in DOMAIN db.ent
  /\ NotebooksOf(db, lastOp.id) = {}

\* C12 as stated: deleteNotebook makes two remote calls, the unlinks first
\* and the delete of the notebook record as a separate call after them.
C12_DeleteNotebookTwoCalls ==
  lastOp.name = "deleteNotebook" =>
    /\ Len(lastOp.calls) = 2
    /\ \A i \in DOMAIN lastOp.calls[1] : lastOp.calls[1][i].op = "unlink"
    /\ lastOp.calls[2] = << TxDelete("notebooks", lastOp.id) >>

\* C12 amended: deleteNotebook makes one remote call, a single transaction
\* whose steps are the unlinks of the notes shown in the notebook followed by
\* the delete; rejected, it leaves the store as it was (the notes still
\* linked, the notebook present); accepted, the notebook and its links are gone.
C12_DeleteNotebookOneAtomicCall ==
  lastOp.name = "deleteNotebook" =>
    LET tx == lastOp.calls[1]
    IN /\ Len(lastOp.calls) = 1
       /\ tx[Len(tx)] = TxDelete("notebooks", lastOp.id)
       /\ \A i \in 1..(Len(tx) - 1) :
            /\ tx[i].op = "unlink" /\ tx[i].ns = "notebooks"
            /\ tx[i].id = lastOp.id /\ tx[i].label = "notes"
            /\ Cardinality(tx[i].targets) = 1
       /\ ~lastOp.ok =>
            /\ db = lastOp.pre
            /\ NotesIn(db, lastOp.id) = NotesIn(lastOp.pre, lastOp.id)
       /\ lastOp.ok =>
            /\ lastOp.id \notin DOMAIN db.ent
            /\ NotesIn(db, lastOp.id) = {}

\* a deleteNotebook with unlink steps was rejected while notes were linked
C12_DeleteNotebookRejected ==
  /\ lastOp.name = "deleteNotebook"
  /\ ~lastOp.ok
  /\ Len(lastOp.calls[1]) > 1
  /\ lastOp.id \in DOMAIN db.ent
  /\ NotesIn(db, lastOp.id) # {}

\* C13: removeTagFromNote for a tag that is not attached to the note is
\* accepted by the store and changes nothing; in general a second identical
\* call after an accepted one is accepted too and leaves the store as the
\* first one left it.
C13_RemoveTagIsIdempotent ==
  lastOp.name = "removeTagFromNote" =>
    LET tx == lastOp.calls[1]
        auth == user[lastOp.client]
    IN /\ tx = << TxUnlink("notes", lastOp.id, "tags", {lastOp.tagId}) >>
       /\ <<lastOp.id, lastOp.tagId>> \notin lastOp.pre.noteTags =>
            /\ TxAccepted(lastOp.pre, auth, tx)
            /\ db = lastOp.pre
       /\ lastOp.ok =>
            /\ TagsOf(db, lastOp.id) = TagsOf(lastOp.pre, lastOp.id) \ {lastOp.tagId}
            /\ db.ent = lastOp.pre.ent
            /\ TxAccepted(db, auth, tx)
            /\ Transact(db, auth, tx, TRUE) = db

\* an accepted removeTagFromNote of a tag the note did not carry
C13_RemovedTagNotAttached ==
  /\ lastOp.name = "removeTagFromNote"
  /\ lastOp.ok
  /\ {lastOp.id, lastOp.tagId} \subseteq DOMAIN lastOp.pre.ent
  /\ <<lastOp.id, lastOp.tagId>> \notin lastOp.pre.noteTags
  /\ TagsOf(lastOp.pre, lastOp.id) # {}

(***************************************************************************)
(* Claims about the selection and the editor.                              *)
(***************************************************************************)
\* C14: when deleteNote(id) resolves, the selection becomes null if the note
\* selected at that moment is id and stays what it is if another note or none
\* is selected at that moment, whatever happened to the selection while the
\* delete was in flight.
C14_DeleteNoteClearsOnlyItsSelection ==
  (lastOp.name = "deleteNoteSettle" /\ lastOp.ok) =>
    lastOp.after = IF lastOp.before # Null /\ lastOp.before.id = lastOp.id
                   THEN Null ELSE lastOp.before

\* the entities of S other than id, and the link edges that do not touch id
OthersOf(S, id) ==
  [ent |-> [e \in DOMAIN S.ent \ {id} |-> S.ent[e]],
   creator |-> [e \in DOMAIN S.creator \ {id} |-> S.creator[e]],
   nbNotes |-> {x \in S.nbNotes : x[1] # id /\ x[2] # id},
   noteTags |-> {x \in S.noteTags : x[1] # id /\ x[2] # id}]

\* C15: an accepted updateNote(id, updates) on a stored note writes the fields
\* of updates and the time of the call as updatedAt; every other field of the
\* note, its creator, its notebook and its tags, and every other record, are
\* what they were before the call; a rejected call changes nothing.
C15_UpdateNotePatchesGivenFields ==
  (lastOp.name = "updateNote" /\ lastOp.id \in DOMAIN lastOp.pre.ent) =>
    LET id == lastOp.id
        before == lastOp.pre.ent[id].attrs
        after == db.ent[id].attrs
    IN IF lastOp.ok
       THEN /\ id \in DOMAIN db.ent
            /\ DOMAIN after = DOMAIN before
            /\ \A f \in DOMAIN lastOp.updates : after[f] = lastOp.updates[f]
            /\ after.updatedAt = lastOp.now
            /\ \A f \in DOMAIN before \ (DOMAIN lastOp.updates \cup {"updatedAt"}) :
                 after[f] = before[f]
            /\ CreatorOf(db, id) = CreatorOf(lastOp.pre, id)
            /\ NotebooksOf(db, id) = NotebooksOf(lastOp.pre, id)
            /\ TagsOf(db, id) = TagsOf(lastOp.pre, id)
            /\ OthersOf(db, id) = OthersOf(lastOp.pre, id)
       ELSE db = lastOp.pre

\* a note in a notebook and with a tag got a new title at a later time
C15_TitleUpdatedOnLinkedNote ==
  /\ lastOp.name = "updateNote" /\ lastOp.ok
  /\ lastOp.id \in DOMAIN lastOp.pre.ent
  /\ DOMAIN lastOp.updates = {"title"}
  /\ NotebooksOf(lastOp.pre, lastOp.id) # {}
  /\ TagsOf(lastOp.pre, lastOp.id) # {}
  /\ lastOp.pre.ent[lastOp.id].attrs.title # lastOp.updates.title
  /\ lastOp.pre.ent[lastOp.id].attrs.updatedAt < lastOp.now

\* C16: an accepted updateNotebook(id, name) whose caller left the description
\* out keeps the stored description, and updateNotebook never changes the
\* notebook's createdAt, its creator or the notes linked to it.
C16_UpdateNotebookKeepsOmittedDescription ==
  (/\ lastOp.name = "updateNotebook" /\ lastOp.ok
   /\ lastOp.id \in DOMAIN lastOp.pre.ent) =>
    LET id == lastOp.id
        before == lastOp.pre.ent[id].attrs
        after == db.ent[id].attrs
    IN /\ lastOp.description = Omitted => after.description = before.description
       /\ after.createdAt = before.createdAt
       /\ CreatorOf(db, id) = CreatorOf(lastOp.pre, id)
       /\ NotesIn(db, id) = NotesIn(lastOp.pre, id)

\* C17: when the autosave timeout fires, the save goes to the note that is
\* selected and writes the title and the content the editor shows at that
\* moment, so that an accepted save leaves the stored note equal to the text
\* on screen.
C17_AutosaveWritesEditorText ==
  lastOp.name = "saveNote" =>
    /\ lastOp.note # Null
    /\ lastOp.id = lastOp.note.id
    /\ lastOp.updates = lastOp.shown
    /\ (lastOp.ok /\ lastOp.id \in DOMAIN lastOp.pre.ent) =>
         /\ db.ent[lastOp.id].attrs.title = lastOp.shown.title
         /\ db.ent[lastOp.id].attrs.content = lastOp.shown.content

\* C18: in every state, a selected note is one of the notes of the client's
\* latest live-query result, with the same fields, notebook and tags.
C18_SelectionMirrorsLatestResult ==
  \A c \in Clients :
    currentNote[c] # Null =>
      \E i \in DOMAIN snap[c].notes : snap[c].notes[i] = currentNote[c]

\* no delete is in flight, the latest result of tab1 is the store's and holds
\* no note, and tab1 still has a note selected
C18_SelectedNoteDeletedElsewhere ==
  /\ \A c \in Clients : delRun[c] = NoDelete
  /\ snap["tab1"] = QueryView(db, user["tab1"])
  /\ snap["tab1"].notes = <<>>
  /\ currentNote["tab1"] # Null

\* C19: in every state of a tab in which auth loading has completed, no user
\* is present and no verification is pending, the route is the login screen;
\* and a tab that renders the note UI of the home route has a user.
C19_NoUserIsSentToLogin ==
  \A c \in Clients :
    /\ (~isLoading[c] /\ user[c] = NoUser /\ sentEmail[c] = NoEmail) =>
         pathname[c] = "/login"
    /\ Screen(pathname[c], isLoading[c], user[c]) = "notes" => user[c] # NoUser

\* db.useAuth() reported no user to a tab that was on another page than the
\* login screen, with no verification pending
C19_RedirectedToLogin ==
  /\ lastOp.name = "AuthEmit" /\ lastOp.user = NoUser
  /\ lastOp.path # "/login"
  /\ sentEmail[lastOp.client] = NoEmail
  /\ user[lastOp.client] = NoUser /\ ~isLoading[lastOp.client]
  /\ pathname[lastOp.client] = "/login"

\* C20: a verifyCode whose remote exchange rejects throws to its caller and
\* leaves the pending-verification address set as it was; one whose exchange
\* resolves does not throw and clears the pending-verification address.
C20_VerifyCodeKeepsPendingOnFailure ==
  lastOp.name = "verifyCode" =>
    IF lastOp.ok
    THEN ~lastOp.threw /\ sentEmail[lastOp.client] = NoEmail
    ELSE lastOp.threw /\ sentEmail[lastOp.client] = lastOp.before

\* a code was rejected for an address other than the pending one
C20_VerifyCodeRejected ==
  /\ lastOp.name = "verifyCode" /\ ~lastOp.ok
  /\ lastOp.before # NoEmail
  /\ lastOp.email # lastOp.before

\* C21: a signIn whose send-code call resolves records the address as pending
\* and does not throw; one whose call rejects throws to its caller and leaves
\* the pending-verification address as it was.
C21_SignInRecordsAfterSend ==
  lastOp.name = "signIn" =>
    IF lastOp.ok
    THEN ~lastOp.threw /\ sentEmail[lastOp.client] = lastOp.email
    ELSE lastOp.threw /\ sentEmail[lastOp.client] = lastOp.before

\* the send-code call was rejected for a second address while a first one
\* was pending
C21_SignInRejectedWhilePending ==
  /\ lastOp.name = "signIn" /\ ~lastOp.ok
  /\ lastOp.before # NoEmail
  /\ lastOp.email # lastOp.before

\* the tag records of S
TagIds(S) == {t \in DOMAIN S.ent : S.ent[t].ns = "tags"}

\* C23: no two tag records of the store have the same name, whoever created
\* them; a createTag whose name is the name of a stored tag is rejected and
\* leaves the store as it was.
C23_TagNamesUniqueAcrossUsers ==
  /\ \A t1, t2 \in TagIds(db) :
       db.ent[t1].attrs.name = db.ent[t2].attrs.name => t1 = t2
  /\ (/\ lastOp.name = "createTag"
      /\ \E t \in TagIds(lastOp.pre) :
           lastOp.pre.ent[t].attrs.name = lastOp.calls[1][1].fields.name) =>
       ~lastOp.ok /\ db = lastOp.pre

\* a user asked for a tag whose name another user's tag has
C23_NameTakenByOtherUser ==
  /\ lastOp.name = "createTag"
  /\ \E t \in TagIds(lastOp.pre) :
       /\ lastOp.pre.ent[t].attrs.name = lastOp.calls[1][1].fields.name
       /\ CreatorOf(lastOp.pre, t) # user[lastOp.client]

\* the notes a transaction unlinks
UnlinkedBy(tx) ==
  UNION {tx[i].targets : i \in {j \in DOMAIN tx : tx[j].op = "unlink"}}

\* C27: after an accepted deleteNotebook(N) or deleteTag(T) no note of the
\* store is linked to N or T, also when the caller's snapshot did not show a
\* note that another client had linked to it in the meantime.
C27_DeleteLeavesNoReference ==
  /\ (lastOp.name = "deleteNotebook" /\ lastOp.ok) =>
       /\ lastOp.id \notin DOMAIN db.ent
       /\ \A e \in db.nbNotes : e[1] # lastOp.id
  /\ (lastOp.name = "deleteTag" /\ lastOp.ok) =>
       /\ lastOp.id \notin DOMAIN db.ent
       /\ \A e \in db.noteTags : e[2] # lastOp.id

\* a notebook was deleted while a note was linked to it that the caller's
\* transaction does not unlink
C27_DeletedWithUnseenNote ==
  /\ lastOp.name = "deleteNotebook" /\ lastOp.ok
  /\ \E n \in NotesIn(lastOp.pre, lastOp.id) : n \notin UnlinkedBy(lastOp.calls[1])

\* the notes of run r that are stored
SeededNotes(r) ==
  {i \in DOMAIN runs[r].noteIds : runs[r].noteIds[i] \in DOMAIN db.ent}

\* C28: the seeder writes its notebook in one call and its notes in one
\* second call; once a seeder invocation has returned, it has created either
\* none or all five of its notes.
C28_SeederCreatesNoneOrAllNotes ==
  /\ \A r \in DOMAIN runs :
       (runs[r].seeded /\ runs[r].pc = "done") =>
         Cardinality(SeededNotes(r)) \in {0, Len(WelcomeNotes)}
  /\ lastOp.name = "SeedNotebookTx" =>
       /\ Len(lastOp.tx) = 2
       /\ \A i \in DOMAIN lastOp.tx : lastOp.tx[i].ns = "notebooks"
  /\ lastOp.name = "SeedNotesTx" =>
       /\ {lastOp.tx[i].id : i \in DOMAIN lastOp.tx}
            = Range(runs[lastOp.run].noteIds)
       /\ Len(runs[lastOp.run].noteIds) = Len(WelcomeNotes)

\* a seeder returned after its notebook was written and its notes were not
C28_NotebookWithoutNotes ==
  /\ lastOp.name = "SeedNotesTx" /\ ~lastOp.ok
  /\ runs[lastOp.run].pc = "done"
  /\ runs[lastOp.run].notebookId \in DOMAIN db.ent
  /\ NotesIn(db, runs[lastOp.run].notebookId) = {}
  /\ SeededNotes(lastOp.run) = {}

\* C30: in every state the route of each tab is a fixed point of the
\* redirect effects of AuthProvider, Login and Home: once loading has
\* completed a tab with a user is not on '/login', a tab without a user is
\* not on '/', and the effects of the next commit push nothing.
C30_RedirectsSettle ==
  \A c \in Clients :
    /\ RedirectStep(pathname[c], isLoading[c], user[c], sentEmail[c])
         = pathname[c]
    /\ (~isLoading[c] /\ user[c] # NoUser) => pathname[c] # "/login"
    /\ (~isLoading[c] /\ user[c] = NoUser) => pathname[c] # "/"
    /\ \A path \in {"/", "/login"} :
         ~isLoading[c] =>
           Redirects(path, isLoading[c], user[c], sentEmail[c])
             = IF user[c] # NoUser THEN "/" ELSE "/login"

\* a user arrived in a tab that was on the login screen, which sent it home
C30_LoginSentHome ==
  /\ lastOp.name = "AuthEmit" /\ lastOp.user # NoUser
  /\ lastOp.path = "/login"
  /\ pathname[lastOp.client] = "/"

\* C25: deleteNote(id) was called on the selected note and other notes
\* remain.  When the delete resolves first the selection is cleared and the
\* live-query update then selects notes[0]; the claim is that the selection
\* is notes[0] as well when the live-query update was processed first and
\* the delete resolves after it.
C25_DeleteSelectedIsOrderIndependent ==
  (/\ lastOp.name = "deleteNoteSettle" /\ lastOp.ok
   /\ ClearsSelection(lastOp.seen, lastOp.id)
   /\ lastOp.id \notin RowIds(lastOp.notes)
   /\ Len(lastOp.notes) > 0
   /\ lastOp.before = lastOp.notes[1]) =>
    lastOp.after = lastOp.notes[1]

\* the row of note id in a list of notes, or Null
RowOf(notes, id) ==
  IF id \in RowIds(notes)
  THEN notes[CHOOSE i \in DOMAIN notes : notes[i].id = id] ELSE Null

\* C26: every step that changes a client's notes result to a non-empty list
\* sets its currentNote to the first note of the new list, whatever was
\* selected; a step that changes it to the empty list leaves currentNote as
\* it was.
C26_HomeSelectsFirstNote ==
  [][\A c \in Clients :
       snap'[c].notes # snap[c].notes =>
         currentNote'[c] = IF Len(snap'[c].notes) > 0
                           THEN snap'[c].notes[1] ELSE currentNote[c]]_vars

\* a tag was added to the selected note X, which is not the first of the
\* list; the result with the tag has arrived and the selection is the first
\* note, not X
C26_SelectionMovedByTagging ==
  LET c == lastOp.client
  IN /\ lastOp.name = "addTagToNote" /\ lastOp.ok
     /\ lastOp.selected # Null /\ lastOp.selected.id = lastOp.id
     /\ RowOf(snap[c].notes, lastOp.id) # Null
     /\ lastOp.tagId \in RowOf(snap[c].notes, lastOp.id).tags
     /\ currentNote[c] = snap[c].notes[1]
     /\ currentNote[c].id # lastOp.id

\* run r invoked the seeder, the seeder has returned and none of its notes
\* is stored: its notebook write or its notes write was rejected
FailedSeeding(r) ==
  runs[r].seeded /\ runs[r].pc = "done" /\ SeededNotes(r) = {}

\* C24: a seeder whose notebook write or notes write was rejected returns
\* normally to the effect, which records the user; and once it has failed
\* for a user, no run of the same AuthProvider invokes the seeder for that
\* user again.
C24_NoSeederAfterFailedSeeding ==
  /\ \A r \in DOMAIN runs :
       FailedSeeding(r) => previousUserRef[runs[r].client] # NoUser
  /\ (lastOp.name = "QueryOnceResolve" /\ runs[lastOp.run].seeded) =>
       \A r \in DOMAIN runs \ {lastOp.run} :
         (runs[r].client = runs[lastOp.run].client
          /\ runs[r].user = runs[lastOp.run].user) => ~FailedSeeding(r)

\* C29: while the pending-verification address of a tab is set, the
\* AuthProvider's redirect effect pushes nothing on any page, and a step
\* leaves the address as it was unless it is a verifyCode of that tab that
\* succeeded, which clears it, or a signIn of that tab that succeeded, which
\* sets it to the new address: a failed verifyCode, 'Back to Email' and
\* signOut leave it set.
C29_PendingAddressStaysUntilVerified ==
  [][\A c \in Clients :
       sentEmail[c] # NoEmail =>
         /\ \A path \in Paths :
              AuthRedirect(path, isLoading[c], user[c], sentEmail[c]) = path
         /\ \/ sentEmail'[c] = sentEmail[c]
            \/ /\ lastOp'.name = "verifyCode" /\ lastOp'.client = c
               /\ lastOp'.ok
               /\ sentEmail'[c] = NoEmail
            \/ /\ lastOp'.name = "signIn" /\ lastOp'.client = c
               /\ lastOp'.ok
               /\ sentEmail'[c] = lastOp'.email]_vars

\* signOut resolved in a tab whose pending-verification address was set, and
\* the address is still set
C29_SignedOutWhilePending ==
  /\ lastOp.name = "signOut" /\ lastOp.ok
  /\ lastOp.before # NoEmail
  /\ sentEmail[lastOp.client] = lastOp.before

\* the calls of kind k that a mounted form of tab c is awaiting
AwaitedBy(c, k) ==
  {i \in DOMAIN pend[c] : pend[c][i].kind = k /\ pend[c][i].live}

\* C22: no mounted form is awaiting more than one call of its submit
\* control: while a send-code, verify-code, create-note, create-notebook or
\* create-tag call is pending the control cannot start a second one.
C22_SubmitDisabledWhilePending ==
  \A c \in Clients :
    \A k \in {"signIn", "verifyCode", "createNote", "createNotebook",
              "createTag"} :
      Cardinality(AwaitedBy(c, k)) <= 1

====
